---- MODULE Spec2Model ----
(***************************************************************************)
(* A model of mscan's SEC EDGAR enrichment core:                           *)
(*   - mscan/utils/rate_limiter.py      RateLimiter (sliding window)       *)
(*   - mscan/enricher/cache_manager.py  CacheManager (SQLite, TTL)         *)
(*   - mscan/enricher/cik_lookup.py     CIKLookup (ticker/name directory)  *)
(*   - mscan/enricher/edgar_client.py   EdgarClient (_make_request and the *)
(*                                      enrich_by_* orchestration)         *)
(* Time is counted in whole seconds.  Threads interleave at the points     *)
(* where the code blocks, takes the limiter's lock or touches shared       *)
(* state.                                                                  *)
(***************************************************************************)
EXTENDS Integers, Sequences, FiniteSets, TLC

VARIABLES
    now,             \* the wall clock, time.time(), in seconds (UTC)
    \* ---- RateLimiter ----
    max_requests,    \* RateLimiter.max_requests
    window_seconds,  \* RateLimiter.window_seconds
    requests,        \* RateLimiter._requests: deque of grant timestamps
    stats,           \* RateLimiter._stats
    lock,            \* RateLimiter._lock: 0 when free, else the holder
    acq,             \* per thread: where it is in acquire()
    granted,         \* history: the grant timestamps of the last window_seconds
    resets,          \* history: the number of reset() calls
    calls,           \* history: the number of acquire() calls made
    query,           \* the last get_stats, current_rate or
                     \* time_until_next_slot call and what it returned
    \* ---- AdaptiveRateLimiter ----
    initial_max,     \* AdaptiveRateLimiter._initial_max
    min_requests,    \* AdaptiveRateLimiter._min_requests
    backoff_factor,  \* AdaptiveRateLimiter._backoff_factor, <<num, den>>
    recovery_rate,   \* AdaptiveRateLimiter._recovery_rate, <<num, den>>
    consecutive_successes, \* AdaptiveRateLimiter._consecutive_successes
    sig,             \* per thread: where it is in record_success or
                     \* record_rate_limit_error
    signals,         \* history: the record_* calls made, the successes
                     \* recorded since the last raise or rate-limit signal,
                     \* and the capacity changes made
    \* ---- CacheManager ----
    tz,              \* the process's local UTC offset in seconds
    cache,           \* table edgar_cache: key -> row
    cstats,          \* CacheManager._stats
    cres,            \* the last cache call and what it returned
    ops,             \* history: the number of cache calls made
    persisted,       \* table cache_stats: persisted_hits, persisted_misses
    chist,           \* history: the get calls completed since clear_all
    cthr,            \* per thread: where it is in a cache call
    \* ---- EdgarClient and CIKLookup ----
    request_count,   \* EdgarClient._request_count
    cache_hit_count, \* EdgarClient._cache_hit_count
    loaded,          \* CIKLookup._loaded
    thr,             \* per thread: where it is in an enrich_by_* call
    last,            \* history: the call that has just returned
    prev,            \* history: a summary of the call that returned last
    ecalls,          \* history: the number of enrich_by_* calls made
    ticker_to_cik,   \* CIKLookup._ticker_to_cik
    cik_to_ticker,   \* CIKLookup._cik_to_ticker
    company_names,   \* CIKLookup._company_names, in insertion order
    name_to_cik,     \* CIKLookup._name_to_cik, in insertion order
    lookup,          \* the last by_ticker, by_name or resolve call made on
                     \* the CIKLookup and what it returned
    \* ---- EdgarClient.extract_financial_metrics and ProfileBuilder ----
    metrics,         \* the last extract_financial_metrics call: the facts
                     \* given and the FinancialMetrics returned
    brand            \* the last _calculate_qualification_score call: the
                     \* profile and technologies given, the score returned

adaptVars == <<initial_max, min_requests, backoff_factor, recovery_rate,
               consecutive_successes, sig, signals>>

rlVars == <<max_requests, window_seconds, requests, stats, lock, acq,
            granted, resets, calls, query, adaptVars>>

cacheVars == <<tz, cache, cstats, cres, ops, persisted, chist, cthr>>

profileVars == <<metrics, brand>>

lookupVars == <<ticker_to_cik, cik_to_ticker, company_names, name_to_cik,
                lookup, profileVars>>

clientVars == <<request_count, cache_hit_count, loaded, thr, last, prev,
                ecalls, lookupVars>>

vars == <<now, rlVars, cacheVars, clientVars>>

(***************************************************************************)
(* Bounds of the model                                                     *)
(***************************************************************************)
MaxTime == 3          \* the limiter's clock runs 0..MaxTime
MaxCapacity == 2      \* max_requests of the limiter under test
MaxWindow == 2        \* window_seconds of the limiter under test
MaxDelayed == 2       \* cap on stats.delayed_requests (sleep rounds)
MaxResets == 1        \* reset() calls in one behaviour
MaxCalls == 3         \* acquire() calls in one behaviour
MaxCacheDays == 1     \* whole days the cache's clock may advance
MaxSeconds == 2       \* single seconds the clock may advance within a day
MaxOps == 4           \* cache calls in one behaviour
MaxEnrichCalls == 2   \* enrich_by_* calls in one behaviour
MaxQueries == 1       \* get_stats, current_rate and time_until_next_slot calls
MaxInitialMax == 4    \* max_requests of the adaptive limiter under test
MaxErrors == 1        \* record_rate_limit_error calls in one behaviour
MaxSuccesses == 10    \* record_success calls in one behaviour
MaxShortSteps == 1    \* one-second steps of the client's clock
MaxLongSteps == 1     \* near-TTL steps of the client's clock
MaxLookups == 1       \* by_ticker calls in one behaviour
MaxEntries == 2       \* entries of the directory the SEC serves
MaxStores == 2        \* submissions documents cached in one behaviour
MaxNameEntries == 3   \* entries of the directory searched by name
MaxLimit == 3         \* the largest limit passed to by_name
MaxDirectoryCalls == 3 \* calls made on a CIKLookup that loads its directory

\* The threads that call into the shared objects.
Threads == {1, 2}

\* Optional[...] = None for the numeric fields that default to None.
None == -1

\* The timeouts passed to acquire(block=True, timeout=...).
Timeouts == {None, 1}

Min(a, b) == IF a <= b THEN a ELSE b
Max(a, b) == IF a >= b THEN a ELSE b

(***************************************************************************)
(* RateLimiter                                                             *)
(***************************************************************************)

\* RateLimitStats()
RateLimitStats ==
    [total_requests |-> 0, delayed_requests |-> 0, total_delay_seconds |-> 0,
     current_bucket_size |-> 0, last_request_time |-> None]

\* A purge that also drops the timestamp lying exactly on the cutoff.
RECURSIVE PurgeAtCutoff(_, _)
PurgeAtCutoff(reqs, cutoff) ==
    IF reqs # <<>> /\ Head(reqs) <= cutoff
    THEN PurgeAtCutoff(Tail(reqs), cutoff)
    ELSE reqs

\* A purge that empties the window.
PurgeAll(reqs, cutoff) == <<>>

\* A purge that drops nothing.
PurgeNothing(reqs, cutoff) == reqs

\* while self._requests and self._requests[0] < cutoff: popleft()
RECURSIVE Purge(_, _)
Purge(reqs, cutoff) ==
    IF reqs # <<>> /\ Head(reqs) < cutoff
    THEN Purge(Tail(reqs), cutoff)
    ELSE reqs

AcqIdle == [pc |-> "idle", block |-> FALSE, timeout |-> None,
            start_time |-> 0, sleep_time |-> 0, wake_at |-> 0,
            ret |-> "none"]

\* No query was made.  n is history: the number of queries made.
NoQuery == [op |-> "none", at |-> 0, bucket |-> 0, count |-> 0, wait |-> 0,
            n |-> 0]

\* No record_* call was made.
NoSignals == [errors |-> 0, successes |-> 0, streak |-> 0, raised |-> 0,
              lowered |-> 0]

SigIdle == [pc |-> "idle", read |-> 0]

\* AdaptiveRateLimiter.__init__ after super().__init__
AdaptiveFields(C, mn, bf, rr) ==
    /\ initial_max = C
    /\ min_requests = mn
    /\ backoff_factor = bf
    /\ recovery_rate = rr
    /\ consecutive_successes = 0
    /\ sig = [t \in Threads |-> SigIdle]
    /\ signals = NoSignals

\* RateLimiter.__init__
RLFields(C, W) ==
    /\ max_requests = C
    /\ window_seconds = W
    /\ requests = <<>>
    /\ stats = RateLimitStats
    /\ lock = 0
    /\ acq = [t \in Threads |-> AcqIdle]
    /\ granted = <<>>
    /\ resets = 0
    /\ calls = 0
    /\ query = NoQuery

\* The defaults of AdaptiveRateLimiter.__init__: backoff_factor = 0.5 and
\* recovery_rate = 0.1
DefaultBackoff == <<1, 2>>
DefaultRecovery == <<1, 10>>

\* The factors and rates the adaptive limiter is built with.
BackoffFactors == {<<1, 2>>, <<3, 4>>}
RecoveryRates == {<<1, 10>>, <<1, 2>>}

\* A limiter on which no record_* call is made: RateLimiter(C, W), or
\* AdaptiveRateLimiter(C, W) with its defaults.
RLInit(C, W) ==
    /\ RLFields(C, W)
    /\ AdaptiveFields(C, 1, DefaultBackoff, DefaultRecovery)

\* AdaptiveRateLimiter(C, W, min_requests, backoff_factor, recovery_rate)
AdaptiveInit(C, W, mn, bf, rr) ==
    /\ RLFields(C, W)
    /\ AdaptiveFields(C, mn, bf, rr)

\* acquire(block, timeout): start_time = time.time(), then `with self._lock`
AcquireCall(t) ==
    /\ acq[t].pc = "idle"
    /\ sig[t].pc = "idle"
    /\ calls < MaxCalls
    /\ calls' = calls + 1
    /\ \E b \in BOOLEAN, to \in Timeouts :
          acq' = [acq EXCEPT ![t] = [AcqIdle EXCEPT !.pc = "wait_lock",
                                        !.block = b,
                                        !.timeout = IF b THEN to ELSE None,
                                        !.start_time = now]]
    /\ UNCHANGED <<now, max_requests, window_seconds, requests, stats, lock,
                   granted, resets, query, adaptVars, cacheVars,
                   clientVars>>

\* `with self._lock:` on entry, and `self._lock.acquire()` after the sleep
LockAcquire(t) ==
    /\ acq[t].pc \in {"wait_lock", "relock"}
    /\ lock = 0
    /\ lock' = t
    /\ acq' = [acq EXCEPT ![t].pc = "loop"]
    /\ UNCHANGED <<now, max_requests, window_seconds, requests, stats,
                   granted, resets, calls, query, adaptVars, cacheVars,
                   clientVars>>

\* A refusal that is counted as a delayed request.
RefuseCounted(t, reqs) ==
    /\ requests' = reqs
    /\ stats' = [stats EXCEPT !.delayed_requests = @ + 1]
    /\ lock' = 0
    /\ acq' = [acq EXCEPT ![t] = [AcqIdle EXCEPT !.ret = <<"F", "a", "l", "s", "e">>]]
    /\ UNCHANGED granted

\* if not block: return False; the `with` releases the lock
Refuse(t, reqs) ==
    /\ requests' = reqs
    /\ lock' = 0
    /\ acq' = [acq EXCEPT ![t] = [AcqIdle EXCEPT !.ret = <<"F", "a", "l", "s", "e">>]]
    /\ UNCHANGED <<stats, granted>>

\* A timeout that leaves the lock held.
TimeOutHoldingLock(t, reqs) ==
    /\ requests' = reqs
    /\ lock' = t
    /\ acq' = [acq EXCEPT ![t] = [AcqIdle EXCEPT !.ret = "TimeoutError"]]
    /\ UNCHANGED <<stats, granted>>

\* raise TimeoutError; the `with` releases the lock
TimeOut(t, reqs) ==
    /\ requests' = reqs
    /\ lock' = 0
    /\ acq' = [acq EXCEPT ![t] =
                 [AcqIdle EXCEPT !.ret = "TimeoutError"]]
    /\ UNCHANGED <<stats, granted>>

\* A sleep with the lock held.
SleepHoldingLock(t, reqs, st) ==
    /\ stats.delayed_requests < MaxDelayed
    /\ requests' = reqs
    /\ stats' = [stats EXCEPT !.delayed_requests = @ + 1]
    /\ lock' = t
    /\ acq' = [acq EXCEPT ![t].pc = "sleep",
                          ![t].sleep_time = st,
                          ![t].wake_at = now + Max(0, st)]
    /\ UNCHANGED granted

\* delayed_requests += 1; self._lock.release(); time.sleep(max(0, sleep_time))
Sleep(t, reqs, st) ==
    /\ stats.delayed_requests < MaxDelayed
    /\ requests' = reqs
    /\ stats' = [stats EXCEPT !.delayed_requests = @ + 1]
    /\ lock' = 0       \* self._lock.release()
    /\ acq' = [acq EXCEPT ![t].pc = "sleep",
                          ![t].sleep_time = st,
                          ![t].wake_at = now + Max(0, st)]
    /\ UNCHANGED granted

\* One pass of the `while True` body of acquire, with the lock held.
AcquireLoop(t) ==
    /\ acq[t].pc = "loop"
    /\ lock = t
    /\ LET cutoff == now - window_seconds
           reqs == Purge(requests, cutoff)
       IN  IF Len(reqs) < max_requests
           THEN \* the slot is granted
                /\ requests' = Append(reqs, now)
                /\ stats' = [stats EXCEPT !.total_requests = @ + 1,
                                          !.last_request_time = now,
                                          !.current_bucket_size = Len(reqs) + 1]
                /\ granted' = Append(granted, now)
                /\ lock' = 0
                /\ acq' = [acq EXCEPT ![t] = [AcqIdle EXCEPT !.ret = <<"T", "r", "u", "e">>]]
           ELSE IF ~acq[t].block
           THEN \* non-blocking: refused
                Refuse(t, reqs)
           ELSE LET sleep_time == reqs[1] - cutoff
                    remaining == acq[t].timeout - (now - acq[t].start_time)
                IN  IF acq[t].timeout # None /\ remaining <= 0
                    THEN TimeOut(t, reqs)
                    ELSE Sleep(t, reqs, IF acq[t].timeout # None
                                        THEN Min(sleep_time, remaining)
                                        ELSE sleep_time)
    /\ UNCHANGED <<now, max_requests, window_seconds, resets, calls, query,
                   adaptVars, cacheVars,
                   clientVars>>

\* time.sleep(max(0, sleep_time)) returns; total_delay_seconds += sleep_time
\* runs before the lock is taken again.
AcquireWake(t) ==
    /\ acq[t].pc = "sleep"
    /\ now >= acq[t].wake_at
    /\ stats' = [stats EXCEPT !.total_delay_seconds = @ + acq[t].sleep_time]
    /\ acq' = [acq EXCEPT ![t].pc = "relock"]
    /\ UNCHANGED <<now, max_requests, window_seconds, requests, lock,
                   granted, resets, calls, query, adaptVars, cacheVars,
                   clientVars>>

\* reset(): clears the window and the statistics under the lock
Reset ==
    /\ lock = 0
    /\ resets < MaxResets
    /\ requests' = <<>>
    /\ stats' = RateLimitStats
    /\ resets' = resets + 1
    /\ UNCHANGED <<now, max_requests, window_seconds, lock, acq, granted,
                   calls, query, adaptVars, cacheVars,
                   clientVars>>

\* The clock advances by one second.  The history drops the grants that no
\* closed window of window_seconds can share with a later grant.
Tick ==
    /\ now < MaxTime
    /\ now' = now + 1
    /\ granted' = SelectSeq(granted, LAMBDA g : g >= now' - window_seconds)
    /\ UNCHANGED <<max_requests, window_seconds, requests, stats, lock, acq,
                   resets, calls, query, adaptVars, cacheVars,
                   clientVars>>

\* The timestamps current_rate counts: sum(1 for t in requests if t >= cutoff)
InWindow(reqs, cutoff) == SelectSeq(reqs, LAMBDA g : g >= cutoff)

\* get_stats(): under the lock, the purge, then a copy of the statistics
GetStats ==
    /\ lock = 0
    /\ query.n < MaxQueries
    /\ LET reqs == Purge(requests, now - window_seconds)
       IN  /\ requests' = reqs
           /\ stats' = [stats EXCEPT !.current_bucket_size = Len(reqs)]
           /\ query' = [NoQuery EXCEPT !.op = "get_stats", !.at = now,
                                       !.bucket = Len(reqs),
                                       !.n = query.n + 1]
    /\ UNCHANGED <<now, max_requests, window_seconds, lock, acq, granted,
                   resets, calls, adaptVars, cacheVars,
                   clientVars>>

\* current_rate(): under the lock, the timestamps of the window are counted;
\* the rate returned is count / window_seconds.
CurrentRate ==
    /\ lock = 0
    /\ query.n < MaxQueries
    /\ query' = [NoQuery EXCEPT
                   !.op = "current_rate", !.at = now,
                   !.count = Len(InWindow(requests, now - window_seconds)),
                   !.n = query.n + 1]
    /\ UNCHANGED <<now, max_requests, window_seconds, requests, stats, lock,
                   acq, granted, resets, calls, adaptVars, cacheVars,
                   clientVars>>

\* time_until_next_slot(): under the lock, the purge, then 0.0 or the time
\* until the oldest timestamp leaves the window
TimeUntilNextSlot ==
    /\ lock = 0
    /\ query.n < MaxQueries
    /\ LET cutoff == now - window_seconds
           reqs == Purge(requests, cutoff)
       IN  /\ requests' = reqs
           /\ query' = [NoQuery EXCEPT
                          !.op = "time_until_next_slot", !.at = now,
                          !.wait = IF Len(reqs) < max_requests
                                   THEN 0
                                   ELSE Max(0, reqs[1] - cutoff),
                          !.n = query.n + 1]
    /\ UNCHANGED <<now, max_requests, window_seconds, stats, lock, acq,
                   granted, resets, calls, adaptVars, cacheVars,
                   clientVars>>

(***************************************************************************)
(* AdaptiveRateLimiter                                                     *)
(***************************************************************************)

\* int(x) of a non-negative fraction n / d
IntOf(n, d) == n \div d

\* A backoff that ignores the floor min_requests.
BackoffLimitNoFloor(current, mn, bf) == IntOf(current * bf[1], bf[2])

\* new_limit = max(self._min_requests, int(current * self._backoff_factor))
BackoffLimit(current, mn, bf) == Max(mn, IntOf(current * bf[1], bf[2]))

\* new_limit = min(self._initial_max,
\*                 int(current + (self._initial_max - current) * rate) + 1)
RecoveryLimit(current, initial, rr) ==
    Min(initial,
        IntOf(current * rr[2] + (initial - current) * rr[1], rr[2]) + 1)

\* The threshold of record_success: `if self._consecutive_successes >= 10`
RecoveryEvery == 10

\* record_rate_limit_error(): self._consecutive_successes = 0, outside the lock
RecordRateLimitErrorCall(t) ==
    /\ acq[t].pc = "idle"
    /\ sig[t].pc = "idle"
    /\ signals.errors < MaxErrors
    /\ consecutive_successes' = 0
    /\ sig' = [sig EXCEPT ![t].pc = "error_lock"]
    /\ signals' = [signals EXCEPT !.errors = @ + 1, !.streak = 0]
    /\ UNCHANGED <<now, max_requests, window_seconds, requests, stats, lock,
                   acq, granted, resets, calls, query, initial_max,
                   min_requests, backoff_factor, recovery_rate, cacheVars,
                   clientVars>>

\* A backoff that lowers the capacity and leaves the window as it is.
BackoffKeepingWindow(t) ==
    /\ sig[t].pc = "error_lock"
    /\ lock = 0
    /\ LET current == max_requests
           new_limit == BackoffLimit(current, min_requests, backoff_factor)
       IN  IF new_limit < current
           THEN /\ max_requests' = new_limit
                /\ signals' = [signals EXCEPT !.lowered = @ + 1]
                /\ UNCHANGED requests
           ELSE UNCHANGED <<max_requests, requests, signals>>
    /\ sig' = [sig EXCEPT ![t] = SigIdle]
    /\ UNCHANGED <<now, window_seconds, stats, lock, acq, granted, resets,
                   calls, query, initial_max, min_requests, backoff_factor,
                   recovery_rate, consecutive_successes, cacheVars,
                   clientVars>>

\* record_rate_limit_error(): `with self._lock:` the capacity is lowered and
\* the window cleared when the new limit is below the current one
Backoff(t) ==
    /\ sig[t].pc = "error_lock"
    /\ lock = 0
    /\ LET current == max_requests
           new_limit == BackoffLimit(current, min_requests, backoff_factor)
       IN  IF new_limit < current
           THEN /\ max_requests' = new_limit
                /\ requests' = <<>>
                /\ signals' = [signals EXCEPT !.lowered = @ + 1]
           ELSE UNCHANGED <<max_requests, requests, signals>>
    /\ sig' = [sig EXCEPT ![t] = SigIdle]
    /\ UNCHANGED <<now, window_seconds, stats, lock, acq, granted, resets,
                   calls, query, initial_max, min_requests, backoff_factor,
                   recovery_rate, consecutive_successes, cacheVars,
                   clientVars>>

\* record_success(): `self._consecutive_successes += 1` reads the count ...
RecordSuccessCall(t) ==
    /\ acq[t].pc = "idle"
    /\ sig[t].pc = "idle"
    /\ signals.successes < MaxSuccesses
    /\ sig' = [sig EXCEPT ![t] = [pc |-> "add", read |-> consecutive_successes]]
    /\ signals' = [signals EXCEPT !.successes = @ + 1]
    /\ UNCHANGED <<now, max_requests, window_seconds, requests, stats, lock,
                   acq, granted, resets, calls, query, initial_max,
                   min_requests, backoff_factor, recovery_rate,
                   consecutive_successes, cacheVars, clientVars>>

\* ... and stores the count it read plus one; no lock is held.  The store
\* is the moment the success is recorded.
RecordSuccessStore(t) ==
    /\ sig[t].pc = "add"
    /\ consecutive_successes' = sig[t].read + 1
    /\ sig' = [sig EXCEPT ![t] = [pc |-> "check", read |-> 0]]
    /\ signals' = [signals EXCEPT !.streak = @ + 1]
    /\ UNCHANGED <<now, max_requests, window_seconds, requests, stats, lock,
                   acq, granted, resets, calls, query, initial_max,
                   min_requests, backoff_factor, recovery_rate,
                   cacheVars, clientVars>>

\* if self._consecutive_successes >= 10
RecordSuccessCheck(t) ==
    /\ sig[t].pc = "check"
    /\ sig' = [sig EXCEPT ![t].pc = IF consecutive_successes >= RecoveryEvery
                                    THEN "success_lock" ELSE "idle"]
    /\ UNCHANGED <<now, max_requests, window_seconds, requests, stats, lock,
                   acq, granted, resets, calls, query, initial_max,
                   min_requests, backoff_factor, recovery_rate,
                   consecutive_successes, signals, cacheVars, clientVars>>

\* `with self._lock:` the capacity moves to the recovery limit
Recover(t) ==
    /\ sig[t].pc = "success_lock"
    /\ lock = 0
    /\ LET current == max_requests
           new_limit == RecoveryLimit(current, initial_max, recovery_rate)
       IN  IF new_limit # current
           THEN /\ max_requests' = new_limit
                /\ signals' = [signals EXCEPT !.raised = @ + 1, !.streak = 0]
           ELSE UNCHANGED <<max_requests, signals>>
    /\ sig' = [sig EXCEPT ![t].pc = "zero"]
    /\ UNCHANGED <<now, window_seconds, requests, stats, lock, acq, granted,
                   resets, calls, query, initial_max, min_requests,
                   backoff_factor, recovery_rate, consecutive_successes,
                   cacheVars, clientVars>>

\* self._consecutive_successes = 0, after the lock is released
RecordSuccessZero(t) ==
    /\ sig[t].pc = "zero"
    /\ consecutive_successes' = 0
    /\ sig' = [sig EXCEPT ![t] = SigIdle]
    /\ UNCHANGED <<now, max_requests, window_seconds, requests, stats, lock,
                   acq, granted, resets, calls, query, initial_max,
                   min_requests, backoff_factor, recovery_rate, signals,
                   cacheVars, clientVars>>

(***************************************************************************)
(* CacheManager                                                            *)
(***************************************************************************)

SecondsPerDay == 24 * 3600

\* The clock of the cache and of the client starts at midnight UTC of day 1,
\* so that every local time of the model is positive.
StartTime == SecondsPerDay

\* Local UTC offsets of the process: New York (-5 h), UTC, Berlin (+1 h).
TzOffsets == {0 - 5 * 3600, 0, 3600}

\* CacheTier and DEFAULT_TTL
CacheTier == {"entity_metadata", "financials", "filings_list",
              "ticker_mapping", "company_facts"}

DEFAULT_TTL(tier) ==
    CASE tier = "entity_metadata" -> 7 * 24 * 3600
      [] tier = "financials"      -> 30 * 24 * 3600
      [] tier = "filings_list"    -> 24 * 3600
      [] tier = "ticker_mapping"  -> 7 * 24 * 3600
      [] tier = "company_facts"   -> 30 * 24 * 3600

\* The separator of date and time in a timestamp's text: datetime.isoformat()
\* writes "T" (code 84), SQLite's datetime('now') writes " " (code 32).
SepT == 84
SepSpace == 32

\* expires_at.isoformat() of a naive local datetime, as the text's three
\* parts "YYYY-MM-DD", separator, "HH:MM:SS".
IsoFormat(local) ==
    [date |-> local \div SecondsPerDay, sep |-> SepT,
     tod |-> local % SecondsPerDay]

\* SQLite's datetime('now'): UTC, "YYYY-MM-DD HH:MM:SS".
SqliteNow(utc) ==
    [date |-> utc \div SecondsPerDay, sep |-> SepSpace,
     tod |-> utc % SecondsPerDay]

\* datetime.now(): the naive local time.
DatetimeNow(utc, tzo) == utc + tzo

\* SQLite compares the TEXT columns byte by byte.
TextGT(a, b) ==
    \/ a.date > b.date
    \/ a.date = b.date /\ a.sep > b.sep
    \/ a.date = b.date /\ a.sep = b.sep /\ a.tod > b.tod

\* json.dumps(data) and json.loads(text) of a JSON object
JsonDumps(data) == <<"json", data>>
JsonLoads(text) == text[2]

\* Python's None as a payload, and SQL NULL as a column value.
Miss == "None"
NULL == "NULL"

CacheStats == [hits |-> 0, misses |-> 0, sets |-> 0, deletes |-> 0,
               evictions |-> 0, errors |-> 0]

NoCall == [op |-> "none", key |-> NULL, check_expiry |-> TRUE,
           value |-> Miss, removed |-> 0, expired |-> FALSE,
           stored |-> Miss, stats |-> CacheStats, ticker |-> NULL]

\* The row of table cache_stats after _init_db.
NoPersisted == [hits |-> 0, misses |-> 0]

\* history: the number of get calls completed since the last clear_all, and
\* the keys whose entries the last clear_all removed.
NoHistory == [gets |-> 0, cleared |-> {}]

\* A thread that has made no cache call yet.  row is the row its SELECT
\* fetched and old the counter its `+= 1` has read; seen, own and clean are
\* history: the payloads the key held during the thread's get, the last set
\* the thread made, and whether no other thread wrote that key since.
NoRow == [data |-> NULL, access_count |-> 0]
NoOwn == [key |-> NULL, data |-> Miss]
CacheIdle == [pc |-> "idle", op |-> "none", key |-> NULL, data |-> Miss,
              row |-> NoRow, old |-> 0, seen |-> {}, ret |-> Miss,
              own |-> NoOwn, clean |-> FALSE]

CacheInit(tzo) ==
    /\ tz = tzo
    /\ cache = <<>>
    /\ cstats = CacheStats
    /\ cres = NoCall
    /\ ops = 0
    /\ persisted = NoPersisted
    /\ chist = NoHistory
    /\ cthr = [t \in Threads |-> CacheIdle]

\* The row get() selects: WHERE key = ? [AND expires_at > datetime('now')]
CacheGetHit(c, key, check_expiry, utc) ==
    /\ key \in DOMAIN c
    /\ check_expiry => TextGT(c[key].expires_at, SqliteNow(utc))

\* get(): the payload returned
CacheGetValue(c, key, check_expiry, utc) ==
    IF CacheGetHit(c, key, check_expiry, utc)
    THEN JsonLoads(c[key].data)
    ELSE Miss

\* get(): UPDATE ... SET access_count = ?, last_accessed = datetime('now')
CacheGetTouch(c, key, check_expiry, utc) ==
    IF CacheGetHit(c, key, check_expiry, utc)
    THEN [c EXCEPT ![key].access_count = @ + 1,
                   ![key].last_accessed = SqliteNow(utc)]
    ELSE c

\* A get that counts its hits only.
CacheGetCountNoMiss(s, c, key, check_expiry, utc) ==
    IF CacheGetHit(c, key, check_expiry, utc)
    THEN [s EXCEPT !.hits = @ + 1]
    ELSE s

\* get(): self._stats.hits += 1 or self._stats.misses += 1
CacheGetCount(s, c, key, check_expiry, utc) ==
    IF CacheGetHit(c, key, check_expiry, utc)
    THEN [s EXCEPT !.hits = @ + 1]
    ELSE [s EXCEPT !.misses = @ + 1]

\* An insert that replaces the table by the one row.
CacheSetRowOnly(c, key, data, tier, ttl_seconds, ticker, company_name, utc, tzo) ==
    LET ttl == IF ttl_seconds # None THEN ttl_seconds ELSE DEFAULT_TTL(tier)
        row == [ticker |-> ticker, company_name |-> company_name,
                tier |-> tier, data |-> JsonDumps(data),
                created_at |-> SqliteNow(utc),
                expires_at |-> IsoFormat(DatetimeNow(utc, tzo) + ttl),
                access_count |-> 0, last_accessed |-> NULL,
                expires_instant |-> utc + ttl]
    IN  [k \in {key} |-> row]

\* set(): INSERT OR REPLACE of the row.  expires_instant is history: the
\* instant (UTC seconds) at which the ttl elapses.
CacheSetRow(c, key, data, tier, ttl_seconds, ticker, company_name, utc, tzo) ==
    LET ttl == IF ttl_seconds # None THEN ttl_seconds ELSE DEFAULT_TTL(tier)
        row == [ticker |-> ticker, company_name |-> company_name,
                tier |-> tier, data |-> JsonDumps(data),
                created_at |-> SqliteNow(utc),
                expires_at |-> IsoFormat(DatetimeNow(utc, tzo) + ttl),
                access_count |-> 0, last_accessed |-> NULL,
                expires_instant |-> utc + ttl]
    IN  [k \in DOMAIN c \cup {key} |-> IF k = key THEN row ELSE c[k]]

\* cleanup_expired(): DELETE ... WHERE expires_at <= datetime('now')
SweptKeys(c, utc) ==
    {k \in DOMAIN c : ~TextGT(c[k].expires_at, SqliteNow(utc))}

\* The keys, payloads and ttl arguments of the calls made on the cache alone.
CacheKeys == {"k1", "k2"}
Payloads == {"v1", "v2"}
TTLs == {None, 1}

\* history: the entry under key exists and its ttl has elapsed
Elapsed(c, key, utc) == key \in DOMAIN c /\ utc > c[key].expires_instant

\* cache.get(key, check_expiry)
CGet ==
    /\ ops < MaxOps
    /\ ops' = ops + 1
    /\ \E key \in CacheKeys, check_expiry \in BOOLEAN :
        /\ cache' = CacheGetTouch(cache, key, check_expiry, now)
        /\ cstats' = CacheGetCount(cstats, cache, key, check_expiry, now)
        /\ cres' = [NoCall EXCEPT
                      !.op = "get", !.key = key,
                      !.check_expiry = check_expiry,
                      !.value = CacheGetValue(cache, key, check_expiry, now),
                      !.expired = Elapsed(cache, key, now),
                      !.stored = IF key \in DOMAIN cache
                                 THEN JsonLoads(cache[key].data) ELSE Miss]
    /\ chist' = [chist EXCEPT !.gets = @ + 1]
    /\ UNCHANGED <<now, tz, persisted, cthr, rlVars, clientVars>>

\* cache.set(key, data, ttl_seconds=ttl)
CSet ==
    /\ ops < MaxOps
    /\ ops' = ops + 1
    /\ \E key \in CacheKeys, data \in Payloads, ttl \in TTLs :
        /\ cache' = CacheSetRow(cache, key, data, "entity_metadata", ttl,
                                NULL, NULL, now, tz)
        /\ cres' = [NoCall EXCEPT !.op = "set", !.key = key, !.value = data]
    /\ cstats' = [cstats EXCEPT !.sets = @ + 1]
    /\ UNCHANGED <<now, tz, persisted, chist, cthr, rlVars, clientVars>>

\* cache.delete(key)
CDelete ==
    /\ ops < MaxOps
    /\ ops' = ops + 1
    /\ \E key \in CacheKeys :
        /\ cache' = [k \in DOMAIN cache \ {key} |-> cache[k]]
        /\ cstats' = IF key \in DOMAIN cache
                     THEN [cstats EXCEPT !.deletes = @ + 1] ELSE cstats
        /\ cres' = [NoCall EXCEPT !.op = "delete", !.key = key,
                      !.removed = IF key \in DOMAIN cache THEN 1 ELSE 0]
    /\ UNCHANGED <<now, tz, persisted, chist, cthr, rlVars, clientVars>>

\* cache.cleanup_expired()
CCleanup ==
    /\ ops < MaxOps
    /\ ops' = ops + 1
    /\ LET gone == SweptKeys(cache, now)
       IN  /\ cache' = [k \in DOMAIN cache \ gone |-> cache[k]]
           /\ cstats' = [cstats EXCEPT !.evictions = @ + Cardinality(gone)]
           /\ cres' = [NoCall EXCEPT !.op = "cleanup_expired",
                         !.removed = Cardinality(gone)]
    /\ UNCHANGED <<now, tz, persisted, chist, cthr, rlVars, clientVars>>

\* cache.clear_all()
CClearAll ==
    /\ ops < MaxOps
    /\ ops' = ops + 1
    /\ cache' = <<>>
    /\ cstats' = CacheStats
    /\ cres' = [NoCall EXCEPT !.op = "clear_all"]
    /\ persisted' = NoPersisted
    /\ chist' = [gets |-> 0, cleared |-> DOMAIN cache]
    /\ UNCHANGED <<now, tz, cthr, rlVars, clientVars>>

\* cache.get_stats(): the counters in memory plus the persisted ones
CGetStats ==
    /\ ops < MaxOps
    /\ ops' = ops + 1
    /\ cres' = [NoCall EXCEPT
                  !.op = "get_stats",
                  !.stats = [cstats EXCEPT !.hits = @ + persisted.hits,
                                           !.misses = @ + persisted.misses]]
    /\ UNCHANGED <<now, tz, cache, cstats, persisted, chist, cthr, rlVars,
                   clientVars>>

\* cache.persist_stats(): the hits and misses in memory are added to the
\* row of cache_stats and reset.
CPersistStats ==
    /\ ops < MaxOps
    /\ ops' = ops + 1
    /\ persisted' = [hits |-> persisted.hits + cstats.hits,
                     misses |-> persisted.misses + cstats.misses]
    /\ cstats' = [cstats EXCEPT !.hits = 0, !.misses = 0]
    /\ cres' = [NoCall EXCEPT !.op = "persist_stats"]
    /\ UNCHANGED <<now, tz, cache, chist, cthr, rlVars, clientVars>>

\* The tickers passed to set(..., ticker=...) and to get_by_ticker.
Tickers == {"AAPL", "aapl"}

\* ticker.upper()
Upper(ticker) == IF ticker = "aapl" THEN "AAPL" ELSE ticker

\* get_by_ticker: WHERE ticker = ? AND expires_at > datetime('now')
TickerRows(c, ticker, utc) ==
    {k \in DOMAIN c : /\ c[k].ticker = Upper(ticker)
                      /\ TextGT(c[k].expires_at, SqliteNow(utc))}

\* get_by_ticker: ORDER BY created_at DESC LIMIT 1.  SQL leaves the order of
\* rows with equal created_at open, so each of them may be the one returned.
NewestRows(c, rows) ==
    {k \in rows : \A j \in rows : ~TextGT(c[j].created_at, c[k].created_at)}

\* cache.set(key, data, ticker=ticker)
CSetTicker ==
    /\ ops < MaxOps
    /\ ops' = ops + 1
    /\ \E key \in CacheKeys, data \in Payloads, ttl \in TTLs,
          ticker \in Tickers :
        /\ cache' = CacheSetRow(cache, key, data, "entity_metadata", ttl,
                                ticker, NULL, now, tz)
        /\ cres' = [NoCall EXCEPT !.op = "set", !.key = key, !.value = data,
                                  !.ticker = ticker]
    /\ cstats' = [cstats EXCEPT !.sets = @ + 1]
    /\ UNCHANGED <<now, tz, persisted, chist, cthr, rlVars, clientVars>>

\* cache.get_by_ticker(ticker): the key is looked up, then self.get(key)
CGetByTicker ==
    /\ ops < MaxOps
    /\ ops' = ops + 1
    /\ \E ticker \in Tickers :
        LET rows == TickerRows(cache, ticker, now)
        IN  IF rows = {}
            THEN /\ cres' = [NoCall EXCEPT !.op = "get_by_ticker",
                                           !.ticker = ticker]
                 /\ UNCHANGED <<cache, cstats, chist>>
            ELSE \E key \in NewestRows(cache, rows) :
                 /\ cache' = CacheGetTouch(cache, key, TRUE, now)
                 /\ cstats' = CacheGetCount(cstats, cache, key, TRUE, now)
                 /\ chist' = [chist EXCEPT !.gets = @ + 1]
                 /\ cres' = [NoCall EXCEPT
                               !.op = "get_by_ticker", !.ticker = ticker,
                               !.key = key,
                               !.value = CacheGetValue(cache, key, TRUE, now),
                               !.expired = Elapsed(cache, key, now),
                               !.stored = JsonLoads(cache[key].data)]
    /\ UNCHANGED <<now, tz, persisted, cthr, rlVars, clientVars>>

(***************************************************************************)
(* CacheManager called by several threads.  Every call opens a connection  *)
(* of its own; SQLite runs each statement, and each write up to its        *)
(* commit, atomically.  The counters of self._stats are plain attributes:  *)
(* `+= 1` reads the counter and writes it back in two steps.               *)
(***************************************************************************)

\* The payload a key holds, None if the table has no row for it.
Held(c, key) == IF key \in DOMAIN c THEN JsonLoads(c[key].data) ELSE Miss

\* history: thread t has written data under key; the gets of the other
\* threads on that key have it among the payloads they may return, and the
\* key is no longer only written by the thread that set it before.
Written(t, key, data, th) ==
    [u \in Threads |->
        IF u = t
        THEN [th[u] EXCEPT !.own = [key |-> key, data |-> data],
                           !.clean = TRUE, !.pc = "set_return",
                           !.old = cstats.sets]
        ELSE [th[u] EXCEPT
                !.seen = IF th[u].op = "get" /\ th[u].pc # "idle"
                            /\ th[u].key = key
                         THEN @ \cup {data} ELSE @,
                !.clean = @ /\ th[u].own.key # key]]

\* get(key) is called.
CGetCall(t) ==
    /\ cthr[t].pc = "idle"
    /\ ops < MaxOps
    /\ ops' = ops + 1
    /\ \E key \in CacheKeys :
          cthr' = [cthr EXCEPT ![t] = [@ EXCEPT !.pc = "get_select",
                                               !.op = "get", !.key = key,
                                               !.row = NoRow, !.ret = Miss,
                                               !.seen = {Held(cache, key)}]]
    /\ UNCHANGED <<now, tz, cache, cstats, cres, persisted, chist, rlVars,
                   clientVars>>

\* get: the SELECT ... WHERE key = ? AND expires_at > datetime('now')
CGetSelect(t) ==
    /\ cthr[t].pc = "get_select"
    /\ LET key == cthr[t].key
       IN  IF CacheGetHit(cache, key, TRUE, now)
           THEN cthr' = [cthr EXCEPT
                           ![t].pc = "get_update",
                           ![t].row = [data |-> cache[key].data,
                                       access_count |-> cache[key].access_count]]
           ELSE cthr' = [cthr EXCEPT ![t].pc = "get_return",
                                     ![t].old = cstats.misses]
    /\ UNCHANGED <<now, tz, cache, cstats, cres, ops, persisted, chist,
                   rlVars, clientVars>>

\* get: UPDATE ... SET access_count = ?, last_accessed = datetime('now') and
\* the commit; self._stats.hits is read.
CGetUpdate(t) ==
    /\ cthr[t].pc = "get_update"
    /\ LET key == cthr[t].key
       IN  cache' = IF key \in DOMAIN cache
                    THEN [cache EXCEPT
                            ![key].access_count = cthr[t].row.access_count + 1,
                            ![key].last_accessed = SqliteNow(now)]
                    ELSE cache
    /\ cthr' = [cthr EXCEPT ![t].pc = "get_return", ![t].old = cstats.hits]
    /\ UNCHANGED <<now, tz, cstats, cres, ops, persisted, chist, rlVars,
                   clientVars>>

\* get: the counter is written back and the payload, or None, is returned.
CGetReturn(t) ==
    /\ cthr[t].pc = "get_return"
    /\ IF cthr[t].row = NoRow
       THEN /\ cstats' = [cstats EXCEPT !.misses = cthr[t].old + 1]
            /\ cthr' = [cthr EXCEPT ![t].pc = "idle", ![t].ret = Miss]
       ELSE /\ cstats' = [cstats EXCEPT !.hits = cthr[t].old + 1]
            /\ cthr' = [cthr EXCEPT ![t].pc = "idle",
                                    ![t].ret = JsonLoads(cthr[t].row.data)]
    /\ chist' = [chist EXCEPT !.gets = @ + 1]
    /\ UNCHANGED <<now, tz, cache, cres, ops, persisted, rlVars, clientVars>>

\* set(key, data) is called: the tier's default ttl applies.
CSetCall(t) ==
    /\ cthr[t].pc = "idle"
    /\ ops < MaxOps
    /\ ops' = ops + 1
    /\ \E key \in CacheKeys, data \in Payloads :
          cthr' = [cthr EXCEPT ![t] = [@ EXCEPT !.pc = "set_insert",
                                               !.op = "set", !.key = key,
                                               !.data = data]]
    /\ UNCHANGED <<now, tz, cache, cstats, cres, persisted, chist, rlVars,
                   clientVars>>

\* set: INSERT OR REPLACE and the commit; self._stats.sets is read.
CSetInsert(t) ==
    /\ cthr[t].pc = "set_insert"
    /\ cache' = CacheSetRow(cache, cthr[t].key, cthr[t].data,
                            "entity_metadata", None, NULL, NULL, now, tz)
    /\ cthr' = Written(t, cthr[t].key, cthr[t].data, cthr)
    /\ UNCHANGED <<now, tz, cstats, cres, ops, persisted, chist, rlVars,
                   clientVars>>

\* set: the counter is written back and True is returned.
CSetReturn(t) ==
    /\ cthr[t].pc = "set_return"
    /\ cstats' = [cstats EXCEPT !.sets = cthr[t].old + 1]
    /\ cthr' = [cthr EXCEPT ![t].pc = "idle"]
    /\ UNCHANGED <<now, tz, cache, cres, ops, persisted, chist, rlVars,
                   clientVars>>

\* The clock advances by a second or by a day.
CacheTick ==
    /\ \E d \in {1, SecondsPerDay} :
        /\ d = 1 => now % SecondsPerDay < MaxSeconds
        /\ now + d <= StartTime + MaxCacheDays * SecondsPerDay + MaxSeconds
        /\ now' = now + d
    /\ UNCHANGED <<rlVars, cacheVars, clientVars>>

(***************************************************************************)
(* EdgarClient: exceptions and the classification of a response            *)
(***************************************************************************)

\* EdgarClient(max_retries=3)
max_retries == 3

\* The status codes EdgarAPIException.__init__ marks retryable.
RetryableStatus == {429, 500, 502, 503, 504}

\* The classes an exception class derives from, itself included.
Bases(cls) ==
    CASE cls \in {"RateLimitError", "NotFoundError", "ServerError"} ->
            {cls, "EdgarAPIException", "Exception"}
      [] cls \in {"HTTPError", "ConnectionError", "RequestsJSONDecodeError"} ->
            {cls, "RequestException", "Exception"}
      [] cls \in {"TickerNotFoundError", "CompanyNotFoundError"} ->
            {cls, "CIKLookupError", "Exception"}
      [] OTHER -> {cls, "Exception"}

IsInstance(e, classes) == Bases(e.cls) \cap classes # {}

NoExc == [cls |-> "none", status_code |-> None, retryable |-> FALSE]

\* EdgarAPIException.__init__:
\*   self.retryable = status_code in (429,500,502,503,504) if status_code else True
EdgarAPIException(cls, status_code) ==
    [cls |-> cls, status_code |-> status_code,
     retryable |-> IF status_code # None /\ status_code # 0
                   THEN status_code \in RetryableStatus
                   ELSE TRUE]

\* NotFoundError.__init__: status_code=404, then self.retryable = False
NotFoundError ==
    [EdgarAPIException("NotFoundError", 404) EXCEPT !.retryable = FALSE]

\* An exception of another library or a builtin: it carries no status code.
OtherException(cls) ==
    [cls |-> cls, status_code |-> None, retryable |-> FALSE]

\* What the transport answers to one requests.get: an HTTP status with a
\* body, or no answer.  The bodies of a 200: a JSON object of the expected
\* shape, a JSON object with members of another type, a JSON value that is
\* no object, and text that is no JSON.
Responses ==
    [status : {200}, body : {"valid", "malformed", "not_object", "not_json"}]
    \cup [status : {400, 403, 404, 429, 500, 501}, body : {""}]
    \cup [status : {None}, body : {"timeout", "connection_error"}]

\* A classification without the 404 branch: the status falls through to
\* response.raise_for_status().
RaisedWithout404(resp) ==
    CASE resp.body = "timeout" -> {EdgarAPIException("ServerError", None)}
      [] resp.body = "connection_error" -> {OtherException("ConnectionError")}
      [] resp.status \in {403, 429} ->
            {EdgarAPIException("RateLimitError", resp.status)}
      [] resp.status >= 500 -> {EdgarAPIException("ServerError", resp.status)}
      [] resp.status >= 400 /\ resp.status < 500 ->
            {OtherException("HTTPError")}
      [] resp.body = "not_json" ->
            {OtherException("RequestsJSONDecodeError"),
             OtherException("ValueError")}
      [] OTHER -> {}

\* _do_request: the exceptions one attempt can end in, none if it returns
\* response.json().  response.json() on a body that is no JSON raises
\* requests' JSONDecodeError (a RequestException) or, with an older requests,
\* a plain ValueError.
Raised(resp) ==
    CASE resp.body = "timeout" -> {EdgarAPIException("ServerError", None)}
      [] resp.body = "connection_error" -> {OtherException("ConnectionError")}
      [] resp.status = 403 -> {EdgarAPIException("RateLimitError", 403)}
      [] resp.status = 404 -> {NotFoundError}
      [] resp.status = 429 -> {EdgarAPIException("RateLimitError", 429)}
      [] resp.status >= 500 -> {EdgarAPIException("ServerError", resp.status)}
      [] resp.status >= 400 /\ resp.status < 500 ->
            {OtherException("HTTPError")}
      [] resp.body = "not_json" ->
            {OtherException("RequestsJSONDecodeError"),
             OtherException("ValueError")}
      [] OTHER -> {}

\* backoff.on_exception(..., (requests.RequestException, ServerError), ...)
Caught(e) == IsInstance(e, {"RequestException", "ServerError"})

\* giveup=lambda e: isinstance(e, (NotFoundError, RateLimitError)) or
\*                  (isinstance(e, EdgarAPIException) and not e.retryable)
Giveup(e) ==
    \/ IsInstance(e, {"NotFoundError", "RateLimitError"})
    \/ IsInstance(e, {"EdgarAPIException"}) /\ ~e.retryable

\* backoff retries a caught exception unless giveup says so or max_tries
\* attempts have been made.
Retried(e, tries) == Caught(e) /\ ~Giveup(e) /\ tries < max_retries

(***************************************************************************)
(* CIKLookup: the directory and the lookups                                *)
(***************************************************************************)

\* MIN_MATCH_SCORE = 0.6 and enrich_by_name(min_confidence=0.8), in
\* thousandths.
MIN_MATCH_SCORE == 600
min_confidence == 800

\* The directory the SEC serves at TICKER_URL: one company.
TickerToCik == [tk \in {"AAPL"} |-> "0000320193"]
CompanyName == "Apple Inc."

\* The identifiers the callers pass.
CikArgs == {"320193", "0000320193"}
TickerArgs == {" aapl ", "ZZZZ", " "}
NameArgs == {" Apple Inc. ", "Apple", "Appel", "Appian", "Zebra", " "}

\* cik.zfill(10)
ZFill(cik) == IF cik = "320193" THEN "0000320193" ELSE cik

\* ticker.upper().strip()
UpperStrip(ticker) ==
    CASE ticker = " aapl " -> "AAPL"
      [] ticker = " " -> ""
      [] OTHER -> ticker

\* name.strip()
Strip(name) ==
    CASE name = " Apple Inc. " -> "Apple Inc."
      [] name = " " -> ""
      [] OTHER -> name

\* str.lower()
Lower(name) ==
    CASE name = "Apple Inc." -> "apple inc."
      [] name = "Apple" -> "apple"
      [] name = "Appel" -> "appel"
      [] name = "Appian" -> "appian"
      [] name = "Zebra" -> "zebra"
      [] OTHER -> name

\* _normalize_name: lower case, the company suffix and the punctuation removed
NormalizeName(name) ==
    IF name = "Apple Inc." THEN "apple" ELSE Lower(name)

\* SequenceMatcher(None, a, b).ratio() against the directory's company, in
\* thousandths: of the names as given, of their lower case and of their
\* normalized forms.
RatioRaw(name) ==
    CASE name = "Apple Inc." -> 1000
      [] name = "Apple" -> 667
      [] name = "Appel" -> 533
      [] name = "Appian" -> 500
      [] OTHER -> 133

RatioLower(name) ==
    CASE name = "Apple Inc." -> 1000
      [] name = "Apple" -> 667
      [] name = "Appel" -> 533
      [] name = "Appian" -> 625
      [] OTHER -> 133

RatioNorm(name) ==
    CASE name = "Apple Inc." -> 1000
      [] name = "Apple" -> 1000
      [] name = "Appel" -> 800
      [] name = "Appian" -> 545
      [] OTHER -> 200

Match(type, score) ==
    [cik |-> TickerToCik["AAPL"], match_type |-> type, match_score |-> score]

\* by_name(name, limit=1) over the loaded directory: the exact pass, the
\* normalized pass, the two fuzzy passes, then sort and cut to limit.
\* The empty sequence stands for CompanyNotFoundError.
ByName(name) ==
    LET limit == 1
        min_score == MIN_MATCH_SCORE
        exact == IF Lower(CompanyName) = Lower(name)
                 THEN <<Match("exact", 1000)>> ELSE <<>>
        normalized ==
            IF exact = <<>> /\ NormalizeName(name) = NormalizeName(CompanyName)
            THEN <<Match("normalized", 950)>> ELSE exact
        fuzzy ==
            IF /\ Len(normalized) < limit
               /\ RatioRaw(name) * 10 >= min_score * 8
               /\ RatioLower(name) >= min_score
            THEN <<Match("fuzzy", RatioLower(name))>> ELSE normalized
        fuzzy_normalized ==
            IF /\ Len(fuzzy) < limit
               /\ RatioNorm(name) >= min_score
            THEN <<Match("fuzzy_normalized", RatioNorm(name))>> ELSE fuzzy
    IN  fuzzy_normalized

(***************************************************************************)
(* CIKLookup: strings as sequences of characters                           *)
(***************************************************************************)

Whitespace == {" "}
DigitChars == <<"0", "1", "2", "3", "4", "5", "6", "7", "8", "9">>

LowerLetters ==
    <<"a", "b", "c", "d", "e", "f", "g", "h", "i", "j", "k", "l", "m",
      "n", "o", "p", "q", "r", "s", "t", "u", "v", "w", "x", "y", "z">>
UpperLetters ==
    <<"A", "B", "C", "D", "E", "F", "G", "H", "I", "J", "K", "L", "M",
      "N", "O", "P", "Q", "R", "S", "T", "U", "V", "W", "X", "Y", "Z">>

Range(s) == {s[i] : i \in 1..Len(s)}

\* str.upper() and str.lower() of one character
UpperChar(c) ==
    IF c \in Range(LowerLetters)
    THEN UpperLetters[CHOOSE i \in 1..26 : LowerLetters[i] = c]
    ELSE c
LowerChar(c) ==
    IF c \in Range(UpperLetters)
    THEN LowerLetters[CHOOSE i \in 1..26 : UpperLetters[i] = c]
    ELSE c

\* An upper() that leaves every character as it is.
StrUpperNothing(s) == s

\* str.upper()
StrUpper(s) == [i \in 1..Len(s) |-> UpperChar(s[i])]

RECURSIVE LStrip(_)
LStrip(s) ==
    IF s # <<>> /\ s[1] \in Whitespace THEN LStrip(Tail(s)) ELSE s

RECURSIVE RStrip(_)
RStrip(s) ==
    IF s # <<>> /\ s[Len(s)] \in Whitespace
    THEN RStrip(SubSeq(s, 1, Len(s) - 1))
    ELSE s

\* str.strip()
StrStrip(s) == RStrip(LStrip(s))

\* str(n) of a natural number
RECURSIVE Str(_)
Str(n) ==
    IF n < 10 THEN <<DigitChars[n + 1]>>
    ELSE Append(Str(n \div 10), DigitChars[(n % 10) + 1])

\* str.zfill(width) of an unsigned numeral
RECURSIVE Zfill(_, _)
Zfill(s, width) ==
    IF Len(s) >= width THEN s ELSE Zfill(<<"0">> \o s, width)

\* The characters of s as one string: the form in which a ticker is handed
\* to the cache.
RECURSIVE Text(_)
Text(s) == IF s = <<>> THEN "" ELSE s[1] \o Text(Tail(s))

\* str.lower()
StrLower(s) == [i \in 1..Len(s) |-> LowerChar(s[i])]

EndsWith(s, x) ==
    Len(s) >= Len(x) /\ SubSeq(s, Len(s) - Len(x) + 1, Len(s)) = x

\* The suffixes of _normalize_name, in its order: each stands for the
\* pattern \s+<suffix>\.?$
Suffixes ==
    <<<<"i", "n", "c">>,
      <<"i", "n", "c", "o", "r", "p", "o", "r", "a", "t", "e", "d">>,
      <<"c", "o", "r", "p">>,
      <<"c", "o", "r", "p", "o", "r", "a", "t", "i", "o", "n">>,
      <<"l", "l", "c">>,
      <<"l", "t", "d">>,
      <<"l", "i", "m", "i", "t", "e", "d">>,
      <<"p", "l", "c">>,
      <<"c", "o">>,
      <<"c", "o", "m", "p", "a", "n", "y">>,
      <<"h", "o", "l", "d", "i", "n", "g", "s">>,
      <<"g", "r", "o", "u", "p">>,
      <<"p", "a", "r", "t", "n", "e", "r", "s", "h", "i", "p">>,
      <<"l", "p">>,
      <<"l", "l", "p">>>>

\* re.sub(r'\s+<suffix>\.?$', '', s): the suffix at the end of s, the dot
\* after it if there is one and the whole run of whitespace before it
RemoveSuffix(s, suffix) ==
    LET body == IF EndsWith(s, suffix \o <<".">>)
                THEN SubSeq(s, 1, Len(s) - 1) ELSE s
        head == SubSeq(body, 1, Len(body) - Len(suffix))
    IN  IF /\ EndsWith(body, suffix)
           /\ head # <<>>
           /\ head[Len(head)] \in Whitespace
        THEN RStrip(head)
        ELSE s

RECURSIVE RemoveSuffixes(_, _)
RemoveSuffixes(s, i) ==
    IF i > Len(Suffixes) THEN s
    ELSE RemoveSuffixes(RemoveSuffix(s, Suffixes[i]), i + 1)

\* \w of a regular expression
WordChar(c) ==
    c \in Range(LowerLetters) \cup Range(UpperLetters) \cup Range(DigitChars)
          \cup {"_"}

\* re.sub(r'[^\w\s]', ' ', s)
Unpunctuate(s) ==
    [i \in 1..Len(s) |->
        IF WordChar(s[i]) \/ s[i] \in Whitespace THEN s[i] ELSE " "]

\* ' '.join(s.split())
RECURSIVE Collapse(_)
Collapse(s) ==
    LET u == LStrip(s)
    IN  IF u = <<>> THEN <<>>
        ELSE IF u[1] \in Whitespace THEN Collapse(Tail(u))
        ELSE IF Len(u) > 1 /\ u[2] \in Whitespace
             THEN IF LStrip(Tail(u)) = <<>> THEN <<u[1]>>
                  ELSE <<u[1], " ">> \o Collapse(Tail(u))
             ELSE <<u[1]>> \o Collapse(Tail(u))

\* _normalize_name(name)
normalize_name(name) ==
    IF name = <<>> THEN <<>>
    ELSE StrStrip(Collapse(Unpunctuate(RemoveSuffixes(StrLower(name), 1))))

(***************************************************************************)
(* CIKLookup: the directory _load_mapping builds from the entries the SEC  *)
(* serves, and by_ticker over it                                           *)
(***************************************************************************)

\* dict[key] = value on a dict kept as a sequence of <<key, value>> pairs in
\* insertion order: an existing key keeps its place.
DictSet(d, key, value) ==
    IF \E i \in 1..Len(d) : d[i][1] = key
    THEN [i \in 1..Len(d) |-> IF d[i][1] = key THEN <<key, value>> ELSE d[i]]
    ELSE Append(d, <<key, value>>)

DictKeys(d) == {d[i][1] : i \in 1..Len(d)}
DictGet(d, key) == d[CHOOSE i \in 1..Len(d) : d[i][1] = key][2]

\* _load_mapping: cik = str(entry['cik_str']).zfill(10)
EntryCik(entry) == Zfill(Str(entry.cik_str), 10)

\* _load_mapping: self._ticker_to_cik[entry['ticker'].upper()] = cik
RECURSIVE BuildTickerToCik(_)
BuildTickerToCik(entries) ==
    IF entries = <<>> THEN <<>>
    ELSE LET entry == entries[Len(entries)]
         IN  DictSet(BuildTickerToCik(SubSeq(entries, 1, Len(entries) - 1)),
                     StrUpper(entry.ticker), EntryCik(entry))

\* _load_mapping: self._cik_to_ticker[cik] = ticker
RECURSIVE BuildCikToTicker(_)
BuildCikToTicker(entries) ==
    IF entries = <<>> THEN <<>>
    ELSE LET entry == entries[Len(entries)]
         IN  DictSet(BuildCikToTicker(SubSeq(entries, 1, Len(entries) - 1)),
                     EntryCik(entry), StrUpper(entry.ticker))

\* _load_mapping: self._company_names[cik] = entry['title']
RECURSIVE BuildCompanyNames(_)
BuildCompanyNames(entries) ==
    IF entries = <<>> THEN <<>>
    ELSE LET entry == entries[Len(entries)]
         IN  DictSet(BuildCompanyNames(SubSeq(entries, 1, Len(entries) - 1)),
                     EntryCik(entry), entry.title)

\* _load_mapping: self._name_to_cik[self._normalize_name(name)] = cik
RECURSIVE BuildNameToCik(_)
BuildNameToCik(entries) ==
    IF entries = <<>> THEN <<>>
    ELSE LET entry == entries[Len(entries)]
         IN  DictSet(BuildNameToCik(SubSeq(entries, 1, Len(entries) - 1)),
                     normalize_name(entry.title), EntryCik(entry))

NoLookup == [op |-> "none", arg |-> <<>>, allow_delisted |-> FALSE,
             ticker |-> <<>>, ret |-> <<>>, exc |-> NULL, key |-> NULL,
             name |-> <<>>, limit |-> 0, min_score |-> <<0, 1>>,
             matches |-> <<>>, calls |-> 0, prefer_ticker |-> FALSE,
             pc |-> "idle", wake_at |-> 0, force_refresh |-> FALSE,
             was_loaded |-> FALSE, read |-> FALSE, fetched |-> 0,
             grant |-> None]

\* by_ticker: ticker = ticker.upper().strip()
TickerKey(ticker) == StrStrip(StrUpper(ticker))

\* by_ticker's result when the cache is not consulted: the empty ticker, the
\* direct lookup, and the ticker that is not found.
ByTickerDirect(rec, ticker) ==
    IF ticker = <<>>
    THEN [rec EXCEPT !.exc = "TickerNotFoundError"]
    ELSE IF ticker \in DictKeys(ticker_to_cik)
         THEN [rec EXCEPT !.ret = DictGet(ticker_to_cik, ticker)]
         ELSE [rec EXCEPT !.exc = "TickerNotFoundError"]

\* by_ticker's fallback, given the row get_by_ticker found:
\* `if cached and cached.get('cik'): return cached['cik']`
ByTickerCached(rec, c, key, utc) ==
    IF /\ CacheGetHit(c, key, TRUE, utc)
       /\ JsonLoads(c[key].data).cik # <<>>
    THEN [rec EXCEPT !.key = key, !.ret = JsonLoads(c[key].data).cik]
    ELSE [rec EXCEPT !.key = key, !.exc = "TickerNotFoundError"]

\* A by_ticker that consults the cache whatever the flag says.
ConsultsCacheAlways(ticker, allow_delisted) ==
    /\ ticker # <<>>
    /\ ticker \notin DictKeys(ticker_to_cik)

\* by_ticker reaches the cache: the ticker is not empty and not in the
\* directory, and the caller allows the fallback.
ConsultsCache(ticker, allow_delisted) ==
    /\ allow_delisted
    /\ ticker # <<>>
    /\ ticker \notin DictKeys(ticker_to_cik)

\* An Optional field of a model: None, or a value.
Unset == [set |-> FALSE, value |-> 0]
Value(v) == [set |-> TRUE, value |-> v]

\* FinancialMetrics(): every field None.  revenue_growth_yoy is in
\* hundredths of a percent.
FinancialMetrics ==
    [revenue_usd |-> Unset, revenue_growth_yoy |-> Unset,
     net_income_usd |-> Unset, total_assets_usd |-> Unset,
     marketing_spend_usd |-> Unset, rd_spend_usd |-> Unset,
     employee_count |-> Unset, fiscal_year |-> Unset, period_end |-> Unset]

\* sec_profile=None, and an SECProfile with its latest_financials (has is
\* false for latest_financials=None)
NoProfile ==
    [present |-> FALSE, has |-> FALSE, latest_financials |-> FinancialMetrics]
SECProfile(has, financials) ==
    [present |-> TRUE, has |-> has, latest_financials |-> financials]

\* No _calculate_qualification_score call made yet.
NoBrand ==
    [called |-> FALSE, sec_profile |-> NoProfile,
     detected_technologies |-> <<>>, qualification_score |-> 0]

\* No extract_financial_metrics call made yet.
NoMetrics ==
    [called |-> FALSE, facts |-> [us_gaap |-> <<>>, dei |-> <<>>],
     ret |-> FinancialMetrics]


\* The CIKLookup after _load_mapping has built its dicts from entries; no
\* entries, before it has.
LookupInit(entries) ==
    /\ ticker_to_cik = BuildTickerToCik(entries)
    /\ company_names = BuildCompanyNames(entries)
    /\ name_to_cik = BuildNameToCik(entries)
    /\ cik_to_ticker = BuildCikToTicker(entries)
    /\ lookup = NoLookup
    /\ metrics = NoMetrics
    /\ brand = NoBrand

(***************************************************************************)
(* EdgarClient: results and exception handlers                             *)
(***************************************************************************)

\* EnrichmentResult, with the members of its error and of its brand.
\* returned and raised tell how the call ended.
NoResult ==
    [returned |-> FALSE, raised |-> FALSE, success |-> FALSE,
     error_type |-> "none", status_code |-> None, retryable |-> FALSE,
     confidence_level |-> "none", data_completeness |-> "none",
     api_calls_made |-> 0, cache_hits |-> 0]

\* An EnrichmentResult(success=False, error=...) that carries a brand too.
FailureWithBrand(error_type, status_code, retryable, api_calls, hits) ==
    [NoResult EXCEPT !.returned = TRUE, !.error_type = error_type,
                     !.status_code = status_code, !.retryable = retryable,
                     !.confidence_level = "medium",
                     !.data_completeness = "0.5",
                     !.api_calls_made = api_calls, !.cache_hits = hits]

\* EnrichmentResult(success=False, error=EdgarAPIError(error_type, message,
\* status_code, retryable), api_calls_made, cache_hits): no brand
Failure(error_type, status_code, retryable, api_calls, hits) ==
    [NoResult EXCEPT !.returned = TRUE, !.error_type = error_type,
                     !.status_code = status_code, !.retryable = retryable,
                     !.api_calls_made = api_calls, !.cache_hits = hits]

Success(financials, api_calls, hits) ==
    [NoResult EXCEPT !.returned = TRUE, !.success = TRUE,
                     !.confidence_level = IF financials THEN "high"
                                          ELSE "medium",
                     !.data_completeness = IF financials THEN "0.8"
                                           ELSE "0.5",
                     !.api_calls_made = api_calls, !.cache_hits = hits]

\* The exception leaves the method.
Propagated == [NoResult EXCEPT !.raised = TRUE]

\* enrich_by_cik: except NotFoundError / except Exception
EnrichByCikHandler(e, api_calls, hits) ==
    IF IsInstance(e, {"NotFoundError"})
    THEN Failure("not_found", 404, FALSE, api_calls, hits)
    ELSE IF IsInstance(e, {"Exception"})
    THEN Failure("enrichment_error", None, TRUE, api_calls, hits)
    ELSE Propagated

\* A handler with the first except clause only.
EnrichByTickerHandlerNoCatchAll(e) ==
    IF IsInstance(e, {"TickerNotFoundError"})
    THEN Failure("ticker_not_found", None, FALSE, 0, 0)
    ELSE Propagated

\* enrich_by_ticker: except TickerNotFoundError / except Exception
EnrichByTickerHandler(e) ==
    IF IsInstance(e, {"TickerNotFoundError"})
    THEN Failure("ticker_not_found", None, FALSE, 0, 0)
    ELSE IF IsInstance(e, {"Exception"})
    THEN Failure("enrichment_error", None, TRUE, 0, 0)
    ELSE Propagated

\* enrich_by_name: except CompanyNotFoundError / except Exception
EnrichByNameHandler(e) ==
    IF IsInstance(e, {"CompanyNotFoundError"})
    THEN Failure("company_not_found", None, FALSE, 0, 0)
    ELSE IF IsInstance(e, {"Exception"})
    THEN Failure("enrichment_error", None, TRUE, 0, 0)
    ELSE Propagated

(***************************************************************************)
(* EdgarClient: the state of a thread inside an enrich_by_* call           *)
(***************************************************************************)

\* pc: idle, resolve, enter_cik, cache_check, acquire, rl_sleep, do_request.
\* stage: the resource being fetched: directory, submissions or facts.
\* exc: the exception the last _make_request raised.
\* resp: the status of the response to its last attempt.
\* lookup: how by_ticker / by_name ended: found, not_found (the resolver's
\* not-found errors), low_confidence or load_failed.
\* The members after result are history of the call: when it returned (at),
\* the API calls and cache hits it made itself (my_api, my_hits), whether
\* _make_request sent an HTTP request (http), how its two fetches ended (sub,
\* facts), whether the facts were asked for, whether the cache had nothing
\* for the company when it began (cold), whether the transport answered
\* every attempt with a valid 200 (all_ok),
\* whether it began right after a complete enrichment of the same company
\* (repeat), and, of its last cache check, whether the entry's ttl was still
\* running (fresh) and whether the check was a hit (hit).
ThreadIdle ==
    [pc |-> "idle", op |-> "none", ident |-> NULL, cik |-> NULL,
     match_type |-> "none", stage |-> "none", attempts |-> 0, wake_at |-> 0,
     resp |-> None, lookup |-> "none",
     exc |-> NoExc, result |-> NoResult, at |-> 0,
     my_api |-> 0, my_hits |-> 0, http |-> FALSE,
     sub |-> "none", facts |-> "none", facts_requested |-> FALSE,
     cold |-> FALSE, all_ok |-> TRUE, repeat |-> FALSE,
     fresh |-> FALSE, hit |-> FALSE]

\* history: the company of the call that returned last, whether it began
\* with nothing cached for the company and fetched valid metadata and facts,
\* and when it returned
NoPrev == [cik |-> NULL, complete |-> FALSE, at |-> 0]

\* The part of the state an EdgarClient has apart from its CIKLookup's
\* directory.
ClientFields(ld) ==
    /\ request_count = 0
    /\ cache_hit_count = 0
    /\ loaded = ld
    /\ thr = [t \in Threads |-> ThreadIdle]
    /\ last = ThreadIdle
    /\ prev = NoPrev
    /\ ecalls = 0

ClientInit ==
    /\ ClientFields(FALSE)
    /\ LookupInit(<<>>)

\* cache_key=f"submissions:{cik}" and cache_key=f"facts:{cik}"
CacheKey(stage, cik) ==
    IF stage = "submissions" THEN "submissions:" \o cik ELSE "facts:" \o cik

\* cache_tier of get_submissions and of get_company_facts
Tier(stage) ==
    IF stage = "submissions" THEN "entity_metadata" ELSE "company_facts"

MappingKey == "__ticker_mapping__"

\* ticker=data.get('tickers', [None])[0] ..., company_name=data.get('entityName')
TickerOf(stage, data) ==
    IF stage = "submissions" /\ data = "valid" THEN "AAPL" ELSE NULL
NameOf(stage, data) ==
    IF data = "valid" THEN CompanyName ELSE NULL

\* A request path that does not cache the response.
StoreNothing(c, key, data, stage, utc, tzo) == c

\* _make_request: self.cache.set(cache_key, data, tier=cache_tier, ...)
StoreResponse(c, key, data, stage, utc, tzo) ==
    CacheSetRow(c, key, data, Tier(stage), None, TickerOf(stage, data),
                NameOf(stage, data), utc, tzo)

\* The enrich_by_* method returns res: enrich_by_name lowers the confidence
\* of a success whose match was not exact.
Done(rec, res) ==
    [rec EXCEPT !.pc = "idle", !.ident = NULL, !.wake_at = 0, !.at = now,
                !.result = IF /\ rec.op = "name" /\ res.success
                              /\ rec.match_type # "exact"
                           THEN [res EXCEPT !.confidence_level = "medium"]
                           ELSE res]

\* enrich_by_cik after _make_request returned data for the stage:
\* get_submissions parses the metadata and the facts are fetched next;
\* extract_financial_metrics reads the facts and the result is built.
AfterData(rec, data, api_calls, hits) ==
    IF rec.stage = "submissions"
    THEN IF data = "valid"
         THEN [rec EXCEPT !.sub = "ok", !.stage = "facts",
                          !.pc = "cache_check", !.attempts = 0,
                          !.facts_requested = TRUE]
         ELSE Done([rec EXCEPT !.sub = "error"],
                   EnrichByCikHandler(OtherException("AttributeError"),
                                      api_calls, hits))
    ELSE IF data = "valid"
         THEN Done([rec EXCEPT !.facts = "ok"], Success(TRUE, api_calls, hits))
         ELSE Done([rec EXCEPT !.facts = "failed"],
                   Success(FALSE, api_calls, hits))

\* An enrich_by_cik without the inner try: every exception reaches the outer
\* handlers.
AfterRaiseNoInnerTry(rec, e, api_calls, hits) ==
    Done([rec EXCEPT !.exc = e,
                     !.sub = IF rec.stage # "submissions" THEN @
                             ELSE IF IsInstance(e, {"NotFoundError"})
                             THEN "NotFound" ELSE "error",
                     !.facts = IF rec.stage = "facts" THEN "failed" ELSE @],
         EnrichByCikHandler(e, api_calls, hits))

\* enrich_by_cik after _make_request raised e for the stage: the outer
\* handlers for the metadata, the inner ones (financials = None) for the
\* facts.
AfterRaise(rec, e, api_calls, hits) ==
    IF rec.stage = "submissions"
    THEN Done([rec EXCEPT !.exc = e,
                          !.sub = IF IsInstance(e, {"NotFoundError"})
                                  THEN "NotFound" ELSE "error"],
              EnrichByCikHandler(e, api_calls, hits))
    ELSE Done([rec EXCEPT !.exc = e, !.facts = "failed"],
              Success(FALSE, api_calls, hits))

\* by_ticker / by_name once the directory is loaded, and what enrich_by_ticker
\* / enrich_by_name do with the outcome.
Lookup(rec) ==
    IF rec.op = "ticker"
    THEN IF rec.ident \in DOMAIN TickerToCik
         THEN [rec EXCEPT !.cik = TickerToCik[rec.ident],
                          !.lookup = "found",
                          !.pc = "enter_cik", !.stage = "none"]
         ELSE Done([rec EXCEPT !.lookup = "not_found"],
                   EnrichByTickerHandler(
                       OtherException("TickerNotFoundError")))
    ELSE LET matches == ByName(rec.ident)
         IN  IF matches = <<>>
             THEN Done([rec EXCEPT !.lookup = "not_found"],
                       EnrichByNameHandler(
                           OtherException("CompanyNotFoundError")))
             ELSE IF matches[1].match_score < min_confidence
             THEN Done([rec EXCEPT !.lookup = "low_confidence"],
                       Failure("low_confidence", None, FALSE, 0, 0))
             ELSE [rec EXCEPT !.cik = matches[1].cik,
                              !.lookup = "found",
                              !.match_type = matches[1].match_type,
                              !.pc = "enter_cik", !.stage = "none"]

\* What is remembered of a returned call: whether it fetched and cached both
\* payloads itself, and when it returned.
PrevOf(rec) ==
    [cik |-> rec.cik,
     complete |-> /\ rec.cold /\ rec.all_ok
                  /\ rec.result.success /\ rec.facts = "ok",
     at |-> rec.at]

\* The thread's step ends in rec: inside the call, or the call has returned.
\* last keeps the record of the returned call until a call is made again.
Step(t, rec) ==
    IF rec.pc = "idle"
    THEN /\ thr' = [thr EXCEPT ![t] = ThreadIdle]
         /\ last' = rec
         /\ prev' = PrevOf(rec)
    ELSE /\ thr' = [thr EXCEPT ![t] = rec]
         /\ UNCHANGED <<last, prev>>

(***************************************************************************)
(* EdgarClient and CIKLookup: the steps of an enrich_by_* call             *)
(***************************************************************************)

\* What the client's steps never change.
rlFixed == <<max_requests, window_seconds, lock, acq, granted, resets, calls,
             query, adaptVars>>
cacheFixed == <<tz, cres, ops, persisted, cthr>>

OkResponse == [status |-> 200, body |-> "valid"]

\* The clock's long step: one second less than the ttl of the metadata tier.
LongStep == DEFAULT_TTL("entity_metadata") - 1

\* A thread enters an enrich_by_* method.  A thread outside a call holds no
\* state, so the call is given to the first thread that is outside one.
EnrichCall(t, op, ident) ==
    /\ thr[t].pc = "idle"
    /\ \A u \in Threads : u < t => thr[u].pc # "idle"
    /\ ecalls < MaxEnrichCalls
    /\ ecalls' = ecalls + 1
    /\ thr' = [thr EXCEPT ![t] =
                 [ThreadIdle EXCEPT
                    !.op = op, !.ident = ident,
                    !.cik = IF op = "cik" THEN ident ELSE NULL,
                    !.pc = IF op = "cik" THEN "enter_cik" ELSE "resolve"]]
    /\ last' = ThreadIdle
    /\ UNCHANGED <<now, lookupVars, rlVars, cacheVars, request_count, cache_hit_count,
                   loaded, prev>>

\* enrich_by_cik(cik): cik = cik.zfill(10)
EnrichByCik(t) == \E cik \in CikArgs : EnrichCall(t, "cik", ZFill(cik))

\* enrich_by_ticker(ticker): ticker = ticker.upper().strip()
EnrichByTicker(t) ==
    \E ticker \in TickerArgs : EnrichCall(t, "ticker", UpperStrip(ticker))

\* enrich_by_name(name): name = name.strip()
EnrichByName(t) == \E name \in NameArgs : EnrichCall(t, "name", Strip(name))

\* by_ticker / by_name up to the fetch of the directory: the empty
\* identifier, _load_mapping's _loaded flag and its look into the cache.
Resolve(t) ==
    /\ thr[t].pc = "resolve"
    /\ LET r == thr[t]
           notfound == IF r.op = "ticker"
                       THEN EnrichByTickerHandler(
                                OtherException("TickerNotFoundError"))
                       ELSE EnrichByNameHandler(
                                OtherException("CompanyNotFoundError"))
       IN  IF r.ident = ""
           THEN /\ Step(t, Done([r EXCEPT !.lookup = "not_found"], notfound))
                /\ UNCHANGED <<cache, cstats, chist, loaded>>
           ELSE IF loaded
           THEN /\ Step(t, Lookup(r))
                /\ UNCHANGED <<cache, cstats, chist, loaded>>
           ELSE /\ cache' = CacheGetTouch(cache, MappingKey, TRUE, now)
                /\ cstats' = CacheGetCount(cstats, cache, MappingKey, TRUE, now)
                /\ chist' = [chist EXCEPT !.gets = @ + 1]
                /\ IF CacheGetHit(cache, MappingKey, TRUE, now)
                   THEN /\ loaded' = TRUE
                        /\ Step(t, Lookup(r))
                   ELSE /\ Step(t, [r EXCEPT !.pc = "acquire",
                                             !.stage = "directory"])
                        /\ UNCHANGED loaded
    /\ UNCHANGED <<now, lookupVars, rlVars, cacheFixed, request_count, cache_hit_count,
                   ecalls>>

\* enrich_by_cik: self._request_count = 0; self._cache_hit_count = 0
EnterCik(t) ==
    /\ thr[t].pc = "enter_cik"
    /\ request_count' = 0
    /\ cache_hit_count' = 0
    /\ LET r == thr[t]
       IN  Step(t, [r EXCEPT
                      !.pc = "cache_check", !.stage = "submissions",
                      !.cold = /\ CacheKey("submissions", r.cik) \notin DOMAIN cache
                               /\ CacheKey("facts", r.cik) \notin DOMAIN cache,
                      !.repeat = /\ prev.complete /\ prev.cik = r.cik
                                 /\ now - prev.at <= MaxShortSteps])
    /\ UNCHANGED <<now, lookupVars, rlVars, cacheVars, loaded, ecalls>>

\* _make_request: cached = self.cache.get(cache_key); on a hit the counter
\* of hits goes up and the payload is returned to enrich_by_cik.
CacheCheck(t) ==
    /\ thr[t].pc = "cache_check"
    /\ LET r == thr[t]
           key == CacheKey(r.stage, r.cik)
           isHit == CacheGetHit(cache, key, TRUE, now)
           seen == [r EXCEPT !.hit = isHit,
                             !.fresh = /\ key \in DOMAIN cache
                                       /\ now < cache[key].expires_instant]
       IN  /\ cache' = CacheGetTouch(cache, key, TRUE, now)
           /\ cstats' = CacheGetCount(cstats, cache, key, TRUE, now)
           /\ chist' = [chist EXCEPT !.gets = @ + 1]
           /\ IF isHit
              THEN /\ cache_hit_count' = cache_hit_count + 1
                   /\ Step(t, AfterData([seen EXCEPT !.my_hits = @ + 1],
                                        CacheGetValue(cache, key, TRUE, now),
                                        request_count, cache_hit_count + 1))
              ELSE /\ Step(t, [seen EXCEPT !.pc = "acquire"])
                   /\ UNCHANGED cache_hit_count
    /\ UNCHANGED <<now, lookupVars, rlVars, cacheFixed, request_count, loaded, ecalls>>

\* self.rate_limiter.acquire(): the slot is granted, or the bucket is full
\* and the thread sleeps until the oldest grant leaves the window.
ClientAcquire(t) ==
    /\ \/ thr[t].pc = "acquire"
       \/ thr[t].pc = "rl_sleep" /\ now >= thr[t].wake_at
    /\ LET cutoff == now - window_seconds
           reqs == Purge(requests, cutoff)
       IN  IF Len(reqs) < max_requests
           THEN /\ requests' = Append(reqs, now)
                /\ stats' = [stats EXCEPT !.total_requests = @ + 1,
                                          !.last_request_time = now,
                                          !.current_bucket_size = Len(reqs) + 1]
                /\ Step(t, [thr[t] EXCEPT !.pc = "do_request",
                                          !.attempts = 0])
           ELSE LET sleep_time == reqs[1] - cutoff
                IN  /\ requests' = reqs
                    /\ stats' = [stats EXCEPT
                                   !.delayed_requests = @ + 1,
                                   !.total_delay_seconds = @ + sleep_time]
                    /\ Step(t, [thr[t] EXCEPT
                                   !.pc = "rl_sleep",
                                   !.wake_at = now + Max(0, sleep_time)])
    /\ UNCHANGED <<now, lookupVars, rlFixed, cacheVars, request_count, cache_hit_count,
                   loaded, ecalls>>

\* _load_mapping: requests.get(TICKER_URL), raise_for_status, the mappings
\* are built and cached; any failure makes it return False and the lookup
\* raise CIKLookupError.
LoadRequest(t) ==
    /\ thr[t].pc = "do_request"
    /\ thr[t].stage = "directory"
    /\ \E resp \in Responses :
        LET r == thr[t]
            failed == IF r.op = "ticker"
                      THEN EnrichByTickerHandler(OtherException("CIKLookupError"))
                      ELSE EnrichByNameHandler(OtherException("CIKLookupError"))
        IN  IF resp = OkResponse
            THEN /\ cache' = CacheSetRow(cache, MappingKey, "directory",
                                         "ticker_mapping", None, NULL, NULL,
                                         now, tz)
                 /\ cstats' = [cstats EXCEPT !.sets = @ + 1]
                 /\ loaded' = TRUE
                 /\ Step(t, Lookup(r))
            ELSE /\ Step(t, Done([r EXCEPT !.lookup = "load_failed"], failed))
                 /\ UNCHANGED <<cache, cstats, loaded>>
    /\ UNCHANGED <<now, lookupVars, rlVars, cacheFixed, chist, request_count,
                   cache_hit_count, ecalls>>

\* One attempt of _do_request under backoff, and what follows it: another
\* attempt later, or the exception leaves _make_request, or the data comes
\* back, the counter of API calls goes up and the response is cached.
DoRequest(t) ==
    /\ thr[t].pc = "do_request"
    /\ thr[t].stage \in {"submissions", "facts"}
    /\ \E resp \in Responses :
        LET tries == thr[t].attempts + 1
            r == [thr[t] EXCEPT !.attempts = tries,
                                !.http = TRUE,
                                !.resp = resp.status,
                                !.exc = NoExc,
                                !.all_ok = @ /\ resp = OkResponse]
            key == CacheKey(r.stage, r.cik)
        IN  \/ /\ Raised(resp) = {}
               /\ request_count' = request_count + 1
               /\ IF resp.body = "not_object"
                  THEN \* data.get(...) raises AttributeError
                       /\ Step(t, AfterRaise([r EXCEPT !.my_api = @ + 1],
                                             OtherException("AttributeError"),
                                             request_count + 1,
                                             cache_hit_count))
                       /\ UNCHANGED <<cache, cstats>>
                  ELSE /\ cache' = StoreResponse(cache, key, resp.body,
                                                 r.stage, now, tz)
                       /\ cstats' = [cstats EXCEPT !.sets = @ + 1]
                       /\ Step(t, AfterData([r EXCEPT !.my_api = @ + 1],
                                            resp.body, request_count + 1,
                                            cache_hit_count))
            \/ \E e \in Raised(resp) :
                  /\ IF Retried(e, tries)
                     THEN Step(t, r)
                     ELSE Step(t, AfterRaise(r, e, request_count,
                                             cache_hit_count))
                  /\ UNCHANGED <<request_count, cache, cstats>>
    /\ UNCHANGED <<now, lookupVars, rlVars, cacheFixed, chist, cache_hit_count, loaded,
                   ecalls>>

\* The clock advances by a second, or by a long step between the calls: no
\* call lasts for days.
ClientTick ==
    /\ \E d \in {1, LongStep} :
        /\ d = 1 => (now - StartTime) % LongStep < MaxShortSteps
        /\ d = LongStep => /\ (now - StartTime) \div LongStep < MaxLongSteps
                           /\ \A t \in Threads : thr[t].pc = "idle"
        /\ now' = now + d
    /\ UNCHANGED <<rlVars, cacheVars, clientVars>>

InitClient ==
    /\ now = StartTime
    /\ RLInit(10, 1)
    /\ \E tzo \in TzOffsets : CacheInit(tzo)
    /\ ClientInit

\* One thread calls the client.
NextClient ==
    \/ EnrichByCik(1)
    \/ EnrichByTicker(1)
    \/ EnrichByName(1)
    \/ \E t \in Threads : Resolve(t)
    \/ \E t \in Threads : EnterCik(t)
    \/ \E t \in Threads : CacheCheck(t)
    \/ \E t \in Threads : ClientAcquire(t)
    \/ \E t \in Threads : LoadRequest(t)
    \/ \E t \in Threads : DoRequest(t)
    \/ ClientTick

SpecClient == InitClient /\ [][NextClient]_vars

\* The threads call enrich_by_cik on the one client at the same time.
NextConcurrent ==
    \/ \E t \in Threads : EnrichByCik(t)
    \/ \E t \in Threads : EnterCik(t)
    \/ \E t \in Threads : CacheCheck(t)
    \/ \E t \in Threads : ClientAcquire(t)
    \/ \E t \in Threads : DoRequest(t)

SpecConcurrent == InitClient /\ [][NextConcurrent]_vars

InitCache ==
    /\ now = StartTime
    /\ RLInit(1, 1)
    /\ \E tzo \in TzOffsets : CacheInit(tzo)
    /\ ClientInit

NextCache ==
    \/ CGet
    \/ CSet
    \/ CDelete
    \/ CCleanup
    \/ CClearAll
    \/ CacheTick

SpecCache == InitCache /\ [][NextCache]_vars

(***************************************************************************)
(* C10: for an entry written by set(k, v, ttl), once the ttl has elapsed   *)
(* (now > expires-at) and until the entry is overwritten, deleted or       *)
(* swept, get(k) returns a miss while get(k, check_expiry=False) still     *)
(* returns v.                                                              *)
(***************************************************************************)
C10_ExpiredEntryIsMissUnlessIgnored ==
    (cres.op = "get" /\ cres.expired) =>
        IF cres.check_expiry
        THEN cres.value = Miss
        ELSE cres.value = cres.stored /\ cres.value # Miss

(***************************************************************************)
(* C11: after any sequence of set and get calls on a key k with no delete, *)
(* sweep or clear in between, a get(k) made before the latest entry        *)
(* expires returns exactly the value of the most recent set(k, .): set is  *)
(* an upsert and the last write wins.  The row under k is the one written  *)
(* by the most recent set(k, .) that no delete, sweep or clear followed.   *)
(***************************************************************************)
C11_LastWriteWins ==
    [][(ops' = ops + 1 /\ cres'.op = "get") =>
          LET k == cres'.key
          IN  (k \in DOMAIN cache /\ now < cache[k].expires_instant) =>
                  cres'.value = JsonLoads(cache[k].data)]_vars

(***************************************************************************)
(* C12: cleanup_expired() removes exactly the entries whose expiry time    *)
(* has passed, returns the number of entries it removed, increases the     *)
(* eviction counter by that number, and leaves every non-expired entry in  *)
(* the table with its row unchanged.                                       *)
(***************************************************************************)
C12_CleanupRemovesExactlyTheExpired ==
    [][(ops' = ops + 1 /\ cres'.op = "cleanup_expired") =>
          LET expired == {k \in DOMAIN cache : now > cache[k].expires_instant}
          IN  /\ DOMAIN cache' = DOMAIN cache \ expired
              /\ cres'.removed = Cardinality(expired)
              /\ cstats'.evictions = cstats.evictions + Cardinality(expired)
              /\ \A k \in DOMAIN cache' : cache'[k] = cache[k]]_vars

\* The cache with its secondary index: entries stored under a ticker and
\* looked up by it.
NextTicker ==
    \/ CSetTicker
    \/ CGetByTicker
    \/ CDelete
    \/ CacheTick

SpecTicker == InitCache /\ [][NextTicker]_vars

(***************************************************************************)
(* C13: after set(k, v, ticker=t), get_by_ticker(t) returns the payload of *)
(* the most recently created non-expired entry stored with ticker t, for   *)
(* every ticker string t, and the lookup is accounted through get as       *)
(* exactly one hit; when no non-expired entry carries ticker t it returns  *)
(* a miss.  Of entries created within the same second each one counts as   *)
(* the most recently created.                                              *)
(***************************************************************************)
C13_TickerLookupFindsNewestEntry ==
    [][(ops' = ops + 1 /\ cres'.op = "get_by_ticker") =>
          LET t == cres'.ticker
              carrying == {k \in DOMAIN cache :
                              /\ cache[k].ticker = t
                              /\ now <= cache[k].expires_instant}
              newest == {k \in carrying :
                            \A j \in carrying :
                               ~TextGT(cache[j].created_at, cache[k].created_at)}
          IN  IF carrying = {}
              THEN cres'.value = Miss
              ELSE /\ \E k \in newest :
                         cres'.value = JsonLoads(cache[k].data)
                   /\ cstats'.hits = cstats.hits + 1
                   /\ cstats'.misses = cstats.misses]_vars

\* Two threads call get and set on one CacheManager.
NextCacheConcurrent ==
    \/ \E t \in Threads : CGetCall(t)
    \/ \E t \in Threads : CGetSelect(t)
    \/ \E t \in Threads : CGetUpdate(t)
    \/ \E t \in Threads : CGetReturn(t)
    \/ \E t \in Threads : CSetCall(t)
    \/ \E t \in Threads : CSetInsert(t)
    \/ \E t \in Threads : CSetReturn(t)

SpecCacheConcurrent == InitCache /\ [][NextCacheConcurrent]_vars

NextStats ==
    \/ CGet
    \/ CSet
    \/ CDelete
    \/ CCleanup
    \/ CClearAll
    \/ CGetStats
    \/ CPersistStats
    \/ CacheTick

SpecStats == InitCache /\ [][NextStats]_vars

C16_ClearAllResetsStatistics ==
    (chist.cleared # {} /\ cstats.sets = 0) =>
        /\ (cres.op = "get" /\ cres.key \in chist.cleared) =>
               cres.value = Miss
        /\ (cres.op = "get_stats" /\ chist.gets > 0) =>
               cres.stats.hits = 0 /\ cres.stats.misses = 0


(***************************************************************************)
(* Claims about EdgarClient                                                *)
(***************************************************************************)

\* The record of thread t's call after a step: the call has returned or not.
After(t) == IF thr'[t].pc = "idle" THEN last' ELSE thr'[t]

\* Thread t takes the step that leaves the given pc.
Leaves(t, pc) == thr[t].pc = pc /\ thr'[t] # thr[t]

(***************************************************************************)
(* C2: in _make_request with use_cache, when the cache holds an entry for  *)
(* the key whose ttl has not elapsed, the call returns the cached payload  *)
(* and increments the cache-hit counter by exactly one, with no limiter    *)
(* acquisition, no HTTP request, no cache write and no change of the       *)
(* API-call counter.                                                       *)
(***************************************************************************)
C2_NonExpiredEntryIsServedFromCache ==
    [][\A t \in Threads :
        LET key == CacheKey(thr[t].stage, thr[t].cik)
        IN  (/\ Leaves(t, "cache_check")
             /\ key \in DOMAIN cache
             /\ now < cache[key].expires_instant)
            => /\ After(t).hit
               /\ cache_hit_count' = cache_hit_count + 1
               /\ requests' = requests /\ stats' = stats
               /\ thr'[t].pc \notin {"acquire", "do_request"}
               /\ request_count' = request_count
               /\ cstats'.sets = cstats.sets
               /\ DOMAIN cache' = DOMAIN cache
               /\ \A k \in DOMAIN cache :
                     /\ cache'[k].data = cache[k].data
                     /\ cache'[k].expires_at = cache[k].expires_at
    ]_vars

(***************************************************************************)
(* C3: on a cache miss an HTTP 403 or 429 is a retryable RateLimitError    *)
(* and the request is retried up to max_retries attempts before the        *)
(* RateLimitError is surfaced.                                             *)
(***************************************************************************)
C3_RateLimitErrorSurfacesAfterMaxRetries ==
    last.exc.cls = "RateLimitError" =>
        /\ last.exc.retryable
        /\ last.attempts = max_retries

(***************************************************************************)
(* C4: on a cache miss every HTTP status >= 500 and every timeout is a     *)
(* retryable ServerError: the request is attempted until one attempt       *)
(* succeeds or exactly max_retries attempts were made, never more, and the *)
(* ServerError is surfaced only after the attempts are exhausted.          *)
(***************************************************************************)
C4_ServerErrorSurfacesAfterMaxRetries ==
    /\ \A t \in Threads : thr[t].attempts <= max_retries
    /\ last.attempts <= max_retries
    /\ last.exc.cls = "ServerError" =>
          /\ last.exc.retryable
          /\ last.attempts = max_retries

(***************************************************************************)
(* C5: on a cache miss an HTTP 404 makes _make_request raise a             *)
(* non-retryable NotFoundError at once: the attempt that got the 404 is    *)
(* the last one (one attempt when it is the first response), no cache      *)
(* entry is written and the API-call counter is not incremented.           *)
(***************************************************************************)
C5_NotFoundFailsFast ==
    [][\A t \in Threads :
        (/\ Leaves(t, "do_request")
         /\ thr[t].stage \in {"submissions", "facts"}
         /\ After(t).resp = 404)
        => /\ After(t).exc = NotFoundError
           /\ ~After(t).exc.retryable
           /\ After(t).attempts = thr[t].attempts + 1
           /\ thr'[t].pc # "do_request"
           /\ cache' = cache
           /\ cstats' = cstats
           /\ request_count' = request_count
    ]_vars

C5_Witness ==
    /\ last.resp = 404
    /\ last.exc = NotFoundError
    /\ last.attempts = 1
    /\ last.result.error_type = "not_found"
    /\ last.result.api_calls_made = 0
    /\ CacheKey("submissions", last.cik) \notin DOMAIN cache

(***************************************************************************)
(* C6: whatever the transport, the cache and the resolver do, the three    *)
(* enrich_by_* methods return an EnrichmentResult and never raise; when    *)
(* the resolver reports not-found the result is success=false with error   *)
(* type ticker_not_found (by ticker) or company_not_found (by name) and    *)
(* retryable=false.                                                        *)
(***************************************************************************)
C6_EnrichNeverRaises ==
    /\ \A t \in Threads : ~thr[t].result.raised
    /\ ~last.result.raised
    /\ last.op # "none" => last.result.returned
    /\ last.lookup = "not_found" =>
          /\ ~last.result.success
          /\ last.result.error_type = IF last.op = "ticker"
                                      THEN "ticker_not_found"
                                      ELSE "company_not_found"
          /\ ~last.result.retryable

C6_Witness ==
    /\ last.op = "ticker"
    /\ last.lookup = "not_found"
    /\ loaded
    /\ last.result.returned
    /\ last.result.error_type = "ticker_not_found"

(***************************************************************************)
(* C7: in enrich_by_cik the metadata fetch is required and the facts fetch *)
(* is optional: a NotFound of the metadata gives success=false, not_found, *)
(* status 404, retryable=false, and the facts are never requested; the     *)
(* metadata with a failed facts fetch gives success=true, 'medium', 0.5;   *)
(* both give success=true, 'high', 0.8.  (enrich_by_name lowers 'high' to  *)
(* 'medium' afterwards when the match was not exact.)                      *)
(***************************************************************************)
C7_RequiredAndOptionalFetch ==
    /\ last.sub = "NotFound" =>
          /\ ~last.result.success
          /\ last.result.error_type = "not_found"
          /\ last.result.status_code = 404
          /\ ~last.result.retryable
          /\ ~last.facts_requested
    /\ (last.sub = "ok" /\ last.facts = "failed") =>
          /\ last.result.success
          /\ last.result.confidence_level = "medium"
          /\ last.result.data_completeness = "0.5"
    /\ (last.sub = "ok" /\ last.facts = "ok") =>
          /\ last.result.success
          /\ last.result.data_completeness = "0.8"
          /\ (last.op = "name" /\ last.match_type # "exact")
                \/ last.result.confidence_level = "high"

C7_Witness ==
    /\ last.op = "cik"
    /\ last.sub = "ok"
    /\ last.facts = "failed"
    /\ last.exc = NotFoundError
    /\ last.result.success
    /\ last.result.confidence_level = "medium"

(***************************************************************************)
(* C8: api_calls_made and cache_hits of an EnrichmentResult count only the *)
(* requests of that enrichment call, also when several enrichment calls    *)
(* run at the same time on one client.                                     *)
(***************************************************************************)
C8_CountersArePerCall ==
    last.result.returned =>
        /\ last.result.api_calls_made = last.my_api
        /\ last.result.cache_hits = last.my_hits

InitRL ==
    /\ now = 0
    /\ \E C \in 1..MaxCapacity, W \in 1..MaxWindow : RLInit(C, W)
    /\ CacheInit(0)
    /\ ClientInit

NextRL ==
    \/ \E t \in Threads : AcquireCall(t)
    \/ \E t \in Threads : LockAcquire(t)
    \/ \E t \in Threads : AcquireLoop(t)
    \/ \E t \in Threads : AcquireWake(t)
    \/ Reset
    \/ Tick

SpecRL == InitRL /\ [][NextRL]_vars

\* The limiter with the calls that inspect it.
NextRLQuery ==
    \/ \E t \in Threads : AcquireCall(t)
    \/ \E t \in Threads : LockAcquire(t)
    \/ \E t \in Threads : AcquireLoop(t)
    \/ \E t \in Threads : AcquireWake(t)
    \/ GetStats
    \/ CurrentRate
    \/ TimeUntilNextSlot
    \/ Tick

SpecRLQuery == InitRL /\ [][NextRLQuery]_vars

\* The limiter shared by threads that acquire, inspect, reset and signal a
\* rate-limit error while others sleep in acquire.
NextRLShared ==
    \/ \E t \in Threads : AcquireCall(t)
    \/ \E t \in Threads : LockAcquire(t)
    \/ \E t \in Threads : AcquireLoop(t)
    \/ \E t \in Threads : AcquireWake(t)
    \/ \E t \in Threads : RecordRateLimitErrorCall(t)
    \/ \E t \in Threads : Backoff(t)
    \/ GetStats
    \/ Reset
    \/ Tick

\* AdaptiveRateLimiter(max_requests = MaxCapacity, window_seconds = W)
InitRLShared ==
    /\ now = 0
    /\ \E W \in 1..MaxWindow : RLInit(MaxCapacity, W)
    /\ CacheInit(0)
    /\ ClientInit

SpecRLShared == InitRLShared /\ [][NextRLShared]_vars

(***************************************************************************)
(* C1: with no reset(), under every interleaving of blocking and           *)
(* non-blocking acquire calls, the grants whose timestamps lie in any      *)
(* closed interval [t - W, t] never number more than the capacity C.       *)
(***************************************************************************)
GrantsIn(lo, hi) ==
    Cardinality({i \in DOMAIN granted : lo <= granted[i] /\ granted[i] <= hi})

C1_WindowNeverExceedsCapacity ==
    resets = 0 =>
        \A t \in 0..(MaxTime + MaxWindow) :
            GrantsIn(t - window_seconds, t) <= max_requests

\* A blocked acquire slept, woke and was granted once the window moved on.
C1_Witness ==
    /\ resets = 0
    /\ stats.total_requests > max_requests
    /\ stats.delayed_requests > 0
    /\ Len(requests) = max_requests
    /\ GrantsIn(now - window_seconds, now) = max_requests

\* Thread t's acquire runs one pass of its loop with the lock held.
Evaluates(t) == acq[t].pc = "loop" /\ acq'[t] # acq[t]

(***************************************************************************)
(* C17: starting from an empty window of a limiter with capacity C, C      *)
(* consecutive acquire(block=False) calls made with no time elapsing all   *)
(* return True and the (C+1)-th returns False at once, without sleeping:   *)
(* when every timestamp of the window was granted at the present instant,  *)
(* a non-blocking acquire returns in the same pass, True while fewer than  *)
(* C were granted and False once C were.                                   *)
(***************************************************************************)
C17_BurstThenRefusal ==
    [][\A t \in Threads :
          (/\ Evaluates(t)
           /\ ~acq[t].block
           /\ \A i \in DOMAIN requests : requests[i] = now) =>
              /\ acq'[t].pc = "idle"
              /\ now' = now
              /\ stats'.delayed_requests = stats.delayed_requests
              /\ stats'.total_delay_seconds = stats.total_delay_seconds
              /\ acq'[t].ret = IF Len(requests) < max_requests
                               THEN "True" ELSE "False"]_vars

\* At time 0 a limiter of capacity 2 has granted two acquires and refused a
\* non-blocking third; nothing slept.
C17_Witness ==
    \E t \in Threads :
        /\ acq[t].pc = "idle" /\ acq[t].ret = "False"
        /\ now = 0 /\ resets = 0
        /\ max_requests > 1
        /\ Len(requests) = max_requests
        /\ stats.total_requests = max_requests
        /\ stats.delayed_requests = 0

(***************************************************************************)
(* C18 as stated: when the window of a RateLimiter(C, W) is full, an       *)
(* acquire made after waiting any duration >= W, exactly W included, since *)
(* the grants that filled it succeeds again.                               *)
(***************************************************************************)
C18_AcquireAfterWindowSucceeds ==
    [][\A t \in Threads :
          (/\ Evaluates(t)
           /\ Len(requests) = max_requests
           /\ \A i \in DOMAIN requests :
                 requests[i] <= now - window_seconds) =>
              acq'[t].pc = "idle" /\ acq'[t].ret = "True"]_vars

(***************************************************************************)
(* C18 amended: when the window of a RateLimiter(C, W) is full, an acquire *)
(* made after waiting a duration > W since the grants that filled it       *)
(* succeeds again; after exactly W the grants still occupy the window.     *)
(***************************************************************************)
C18_AcquireAfterMoreThanWindowSucceeds ==
    [][\A t \in Threads :
          (/\ Evaluates(t)
           /\ Len(requests) = max_requests
           /\ \A i \in DOMAIN requests :
                 requests[i] < now - window_seconds) =>
              acq'[t].pc = "idle" /\ acq'[t].ret = "True"]_vars

\* The C grants that filled the window have all left it, and one more
\* acquire was granted at the present instant without a sleep.
C18_Witness ==
    /\ resets = 0
    /\ stats.total_requests = max_requests + 1
    /\ stats.delayed_requests = 0
    /\ Len(requests) = 1
    /\ requests[1] = now
    /\ now <= MaxTime

(***************************************************************************)
(* C19: a grant timestamp exactly equal to the cutoff now - W still        *)
(* occupies the window: the purge in acquire, get_stats and                *)
(* time_until_next_slot removes only the timestamps strictly older than    *)
(* now - W, get_stats and current_rate count the timestamp at the cutoff,  *)
(* and an acquire made at that instant against C counted timestamps is not *)
(* granted.                                                                *)
(***************************************************************************)
C19_CutoffTimestampStillCounts ==
    [][LET cutoff == now - window_seconds
           kept == InWindow(requests, cutoff)
           after == InWindow(requests', cutoff)
       IN  /\ Len(after) >= Len(kept)
           /\ SubSeq(after, 1, Len(kept)) = kept
           /\ \A t \in Threads :
                 (Evaluates(t) /\ Len(kept) >= max_requests) =>
                     acq'[t].ret # "True"
           /\ (query'.n = query.n + 1 /\ query'.op = "get_stats") =>
                 query'.bucket = Len(kept)
           /\ (query'.n = query.n + 1 /\ query'.op = "current_rate") =>
                 query'.count = Len(kept)]_vars

\* The oldest timestamp lies exactly on the cutoff: a query made at this
\* instant has purged and kept it, and a non-blocking acquire was refused
\* against the full window.
C19_Witness ==
    \E t \in Threads :
        /\ acq[t].pc = "idle" /\ acq[t].ret = "False"
        /\ Len(requests) = max_requests
        /\ requests[1] = now - window_seconds
        /\ query.op \in {"get_stats", "time_until_next_slot"}
        /\ query.at = now

(***************************************************************************)
(* C20: an acquire(block=False) that is refused has no side effects: it    *)
(* records no timestamp, leaves every non-expired timestamp in the window, *)
(* and leaves the capacity and the counters total_requests,                *)
(* delayed_requests, total_delay_seconds and last_request_time unchanged.  *)
(***************************************************************************)
C20_RefusalHasNoSideEffects ==
    [][\A t \in Threads :
          (Evaluates(t) /\ ~acq[t].block /\ acq'[t].ret = "False") =>
              LET cutoff == now - window_seconds
              IN  /\ InWindow(requests', cutoff) = InWindow(requests, cutoff)
                  /\ Len(requests') <= Len(requests)
                  /\ max_requests' = max_requests
                  /\ window_seconds' = window_seconds
                  /\ stats'.total_requests = stats.total_requests
                  /\ stats'.delayed_requests = stats.delayed_requests
                  /\ stats'.total_delay_seconds = stats.total_delay_seconds
                  /\ stats'.last_request_time = stats.last_request_time]_vars

\* A non-blocking acquire was refused at an instant after the last grant.
C20_Witness ==
    \E t \in Threads :
        /\ acq[t].pc = "idle" /\ acq[t].ret = "False"
        /\ Len(requests) = max_requests
        /\ stats.last_request_time # None
        /\ stats.last_request_time < now
        /\ stats.total_requests = max_requests

(***************************************************************************)
(* C21: a blocking acquire that finds the window full does not hold the    *)
(* limiter's lock while it sleeps, so other threads can complete acquire,  *)
(* get_stats, reset or a capacity change during the sleep; on waking it    *)
(* takes the lock again and re-evaluates from scratch: it is granted only  *)
(* if the occupancy at that moment is below the capacity at that moment,   *)
(* and otherwise it waits again (or, with a timeout, gives up).            *)
(***************************************************************************)
C21_SleepReleasesLockAndRevalidates ==
    [][\A t \in Threads :
          /\ acq'[t].pc \in {"sleep", "relock"} => lock' # t
          /\ (Evaluates(t) /\ acq[t].block) =>
                LET reqs == Purge(requests, now - window_seconds)
                IN  /\ lock = t
                    /\ IF Len(reqs) < max_requests
                       THEN /\ acq'[t].ret = "True"
                            /\ requests' = Append(reqs, now)
                       ELSE /\ requests' = reqs
                            /\ \/ acq'[t].pc = "sleep"
                               \/ /\ acq'[t].ret = "TimeoutError"
                                  /\ acq[t].timeout # None]_vars

\* Two grants filled the window and a third acquire slept; during its sleep
\* a rate-limit signal lowered the capacity and cleared the window; on
\* waking the sleeper was granted against the new capacity, while the two
\* earlier grants are still within the last window_seconds.
C21_Witness ==
    /\ resets = 0
    /\ signals.lowered = 1
    /\ max_requests < initial_max
    /\ stats.delayed_requests >= 1
    /\ stats.total_requests = initial_max + 1
    /\ Len(granted) = initial_max + 1
    /\ requests = <<now>>
    /\ lock = 0

(***************************************************************************)
(* C22: acquire(block=True, timeout=T) raises TimeoutError when the        *)
(* deadline passes before a slot frees (and only then, never sleeping past *)
(* the deadline); in that case no timestamp is recorded, total_requests is *)
(* unchanged, and the limiter's lock is released so later calls by any     *)
(* thread are not blocked by the failed call.                              *)
(***************************************************************************)
C22_TimeoutRaisesAndReleases ==
    [][\A t \in Threads :
          (Evaluates(t) /\ acq[t].block /\ acq[t].timeout # None) =>
              LET cutoff == now - window_seconds
                  full == Len(Purge(requests, cutoff)) >= max_requests
                  passed == now - acq[t].start_time >= acq[t].timeout
              IN  /\ (acq'[t].ret = "TimeoutError") <=> (full /\ passed)
                  /\ acq'[t].ret = "TimeoutError" =>
                        /\ acq'[t].pc = "idle"
                        /\ InWindow(requests', cutoff) =
                               InWindow(requests, cutoff)
                        /\ Len(requests') <= Len(requests)
                        /\ stats'.total_requests = stats.total_requests
                        /\ lock' = 0
                  /\ acq'[t].pc = "sleep" =>
                        acq'[t].wake_at <= acq[t].start_time + acq[t].timeout
      ]_vars

\* A timed acquire slept, woke at its deadline with the window still full
\* and raised TimeoutError; the lock is free and every grant counted is one
\* of the grants that filled the window.
C22_Witness ==
    \E t \in Threads :
        /\ acq[t].pc = "idle" /\ acq[t].ret = "TimeoutError"
        /\ lock = 0
        /\ resets = 0
        /\ Len(requests) = max_requests
        /\ stats.total_requests = max_requests
        /\ stats.delayed_requests >= 1

(***************************************************************************)
(* AdaptiveRateLimiter under acquire, record_success and                   *)
(* record_rate_limit_error calls of two threads                            *)
(***************************************************************************)
\* AdaptiveRateLimiter(MaxInitialMax, 1, MaxInitialMax - 1, 0.5,
\* recovery_rate): the floor lies just below the ceiling
InitAdaptive ==
    /\ now = 0
    /\ \E rr \in RecoveryRates :
          AdaptiveInit(MaxInitialMax, 1, MaxInitialMax - 1, DefaultBackoff, rr)
    /\ CacheInit(0)
    /\ ClientInit

NextAdaptive ==
    \/ \E t \in Threads : AcquireCall(t)
    \/ \E t \in Threads : LockAcquire(t)
    \/ \E t \in Threads : AcquireLoop(t)
    \/ \E t \in Threads : RecordRateLimitErrorCall(t)
    \/ \E t \in Threads : Backoff(t)
    \/ \E t \in Threads : RecordSuccessCall(t)
    \/ \E t \in Threads : RecordSuccessStore(t)
    \/ \E t \in Threads : RecordSuccessCheck(t)
    \/ \E t \in Threads : Recover(t)
    \/ \E t \in Threads : RecordSuccessZero(t)

SpecAdaptive == InitAdaptive /\ [][NextAdaptive]_vars

\* AdaptiveRateLimiter(C, 1, min_requests, backoff_factor, recovery_rate)
\* for every capacity, floor, factor and rate of the bounds
InitBackoff ==
    /\ now = 0
    /\ \E C \in 1..MaxInitialMax, mn \in 1..MaxInitialMax,
          bf \in BackoffFactors, rr \in RecoveryRates :
          /\ mn <= C
          /\ AdaptiveInit(C, 1, mn, bf, rr)
    /\ CacheInit(0)
    /\ ClientInit

\* acquire and record_rate_limit_error calls of two threads
NextBackoff ==
    \/ \E t \in Threads : AcquireCall(t)
    \/ \E t \in Threads : LockAcquire(t)
    \/ \E t \in Threads : AcquireLoop(t)
    \/ \E t \in Threads : RecordRateLimitErrorCall(t)
    \/ \E t \in Threads : Backoff(t)

SpecBackoff == InitBackoff /\ [][NextBackoff]_vars

\* record_success and record_rate_limit_error calls of two threads
NextSignals ==
    \/ \E t \in Threads : RecordRateLimitErrorCall(t)
    \/ \E t \in Threads : Backoff(t)
    \/ \E t \in Threads : RecordSuccessCall(t)
    \/ \E t \in Threads : RecordSuccessStore(t)
    \/ \E t \in Threads : RecordSuccessCheck(t)
    \/ \E t \in Threads : Recover(t)
    \/ \E t \in Threads : RecordSuccessZero(t)

SpecSignals == InitBackoff /\ [][NextSignals]_vars

(***************************************************************************)
(* C24: record_rate_limit_error resets the consecutive-success count to    *)
(* zero and lowers the capacity to max(min_requests, floor(capacity *      *)
(* backoff_factor)); whenever that value is lower than the current         *)
(* capacity the window is cleared in the same step, so that the lower      *)
(* capacity takes effect at once, and otherwise the window is kept.        *)
(***************************************************************************)
C24_BackoffLowersCapacityAndClearsWindow ==
    [][\A t \in Threads :
          /\ (sig[t].pc = "idle" /\ sig'[t].pc = "error_lock") =>
                consecutive_successes' = 0
          /\ (sig[t].pc = "error_lock" /\ sig'[t].pc = "idle") =>
                LET scaled == (max_requests * backoff_factor[1])
                                  \div backoff_factor[2]
                    target == IF scaled >= min_requests
                              THEN scaled ELSE min_requests
                IN  /\ max_requests' = target
                    /\ requests' = IF target < max_requests
                                   THEN <<>> ELSE requests]_vars

\* Grants were in the window when a rate-limit signal lowered the capacity;
\* the window is empty.
C24_Witness ==
    /\ signals.lowered = 1
    /\ max_requests < initial_max
    /\ stats.total_requests >= 1
    /\ stats.current_bucket_size >= 1
    /\ requests = <<>>
    /\ consecutive_successes = 0
    /\ \A t \in Threads : sig[t].pc = "idle"

(***************************************************************************)
(* C25: for an AdaptiveRateLimiter built with min_requests <=              *)
(* max_requests, after any sequence of acquire, record_success and         *)
(* record_rate_limit_error calls the capacity satisfies min_requests <=    *)
(* capacity <= original max_requests.                                      *)
(***************************************************************************)
C25_CapacityBetweenFloorAndCeiling ==
    min_requests <= max_requests /\ max_requests <= initial_max

\* After acquires, a backoff to the floor and ten successes the capacity is
\* back at the ceiling.
C25_Witness ==
    /\ calls >= 1
    /\ stats.total_requests >= 1
    /\ signals.lowered >= 1
    /\ signals.raised >= 1
    /\ max_requests = initial_max

(***************************************************************************)
(* C26: the capacity is raised only when the 10th consecutive              *)
(* record_success since the last raise or rate-limit signal is recorded (a *)
(* rate-limit signal resets the count), and each such raise strictly       *)
(* increases a capacity that is below the original ceiling, without        *)
(* passing the ceiling.                                                    *)
(***************************************************************************)
C26_RaiseOnlyOnTenthSuccess ==
    [][/\ max_requests' > max_requests => signals.streak = RecoveryEvery
       /\ \A t \in Threads :
             (/\ sig[t].pc = "success_lock" /\ sig'[t].pc = "zero"
              /\ max_requests < initial_max) =>
                 max_requests' > max_requests /\ max_requests' <= initial_max
      ]_vars

(***************************************************************************)
(* The limiter with time that advances and threads that keep running: the  *)
(* clock ticks, a thread that can take the free lock does, a thread that   *)
(* holds the lock runs its pass, and a sleep whose time is up returns.     *)
(***************************************************************************)
SpecRLLive ==
    /\ InitRL
    /\ [][NextRL]_vars
    /\ WF_vars(Tick)
    /\ \A t \in Threads : /\ WF_vars(LockAcquire(t))
                          /\ WF_vars(AcquireLoop(t))
                          /\ WF_vars(AcquireWake(t))

\* Thread t is inside acquire(block=True) with no timeout.
Blocking(t) ==
    acq[t].pc # "idle" /\ acq[t].block /\ acq[t].timeout = None

\* The run has reached the end of what the bounds let it show: the clock
\* cannot reach t's wake-up time, or no further sleep is modelled.
BeyondBounds(t) ==
    \/ acq[t].pc = "sleep" /\ acq[t].wake_at > MaxTime
    \/ stats.delayed_requests >= MaxDelayed

(***************************************************************************)
(* C23: a blocking acquire with no timeout eventually returns True:        *)
(* provided time advances and only finitely many other acquisitions        *)
(* compete, every thread blocked in acquire(block=True) is eventually      *)
(* granted a slot and none waits forever.                                  *)
(***************************************************************************)
C23_BlockingAcquireIsEventuallyGranted ==
    \A t \in Threads :
        Blocking(t) ~>
            \/ acq[t].pc = "idle" /\ acq[t].ret = "True"
            \/ BeyondBounds(t)

\* An acquire with no timeout found the window full, slept window_seconds
\* and was granted; every call has returned.
C23_Witness ==
    /\ resets = 0
    /\ window_seconds = 2
    /\ stats.delayed_requests = 1
    /\ stats.total_delay_seconds = 2
    /\ stats.total_requests = max_requests + 1
    /\ \A t \in Threads : acq[t].pc = "idle" /\ acq[t].ret # "TimeoutError"

(***************************************************************************)
(* difflib, as by_name uses it: SequenceMatcher(None, a, b).ratio() and    *)
(* get_close_matches(word, possibilities, n, cutoff).  A ratio is kept as  *)
(* the fraction <<2 * matches, len(a) + len(b)>>.                          *)
(***************************************************************************)

\* The length of the longest common run that starts at a[i] and b[j].
RECURSIVE Common(_, _, _, _)
Common(a, b, i, j) ==
    IF i <= Len(a) /\ j <= Len(b) /\ a[i] = b[j]
    THEN 1 + Common(a, b, i + 1, j + 1)
    ELSE 0

SetMax(S) == CHOOSE x \in S : \A y \in S : y <= x
SetMin(S) == CHOOSE x \in S : \A y \in S : x <= y

\* find_longest_match: <<i, j, k>> with a[i..i+k-1] = b[j..j+k-1], k the
\* largest there is, i the smallest for that k and j the smallest for that i.
LongestMatch(a, b) ==
    LET run == [i \in 1..Len(a) |-> [j \in 1..Len(b) |-> Common(a, b, i, j)]]
        k == SetMax({run[i][j] : i \in 1..Len(a), j \in 1..Len(b)})
        i == SetMin({x \in 1..Len(a) : \E y \in 1..Len(b) : run[x][y] = k})
        j == SetMin({y \in 1..Len(b) : run[i][y] = k})
    IN  <<i, j, k>>

\* get_matching_blocks: the sum of the sizes of the longest match and of the
\* matching blocks to its left and to its right.
RECURSIVE MatchCount(_, _)
MatchCount(a, b) ==
    IF a = <<>> \/ b = <<>> THEN 0
    ELSE LET m == LongestMatch(a, b)
             i == m[1]
             j == m[2]
             k == m[3]
         IN  IF k = 0 THEN 0
             ELSE k + MatchCount(SubSeq(a, 1, i - 1), SubSeq(b, 1, j - 1))
                    + MatchCount(SubSeq(a, i + k, Len(a)),
                                 SubSeq(b, j + k, Len(b)))

\* SequenceMatcher(None, a, b).ratio(): 2.0 * matches / length, 1.0 for two
\* empty strings
Ratio(a, b) ==
    IF Len(a) + Len(b) = 0 THEN <<1, 1>>
    ELSE <<2 * MatchCount(a, b), Len(a) + Len(b)>>

\* x >= y, x > y and x = y of two fractions
FracGE(x, y) == x[1] * y[2] >= y[1] * x[2]
FracGT(x, y) == x[1] * y[2] > y[1] * x[2]
FracEQ(x, y) == x[1] * y[2] = y[1] * x[2]

\* The characters in the order of their code points.
CodePoints ==
    <<" ", "&", ",", "-", ".">> \o DigitChars \o UpperLetters \o <<"_">>
        \o LowerLetters
Ord(c) == CHOOSE n \in 1..Len(CodePoints) : CodePoints[n] = c

\* a > b of two strings
RECURSIVE StrGT(_, _)
StrGT(a, b) ==
    IF a = <<>> THEN FALSE
    ELSE IF b = <<>> THEN TRUE
    ELSE IF a[1] # b[1] THEN Ord(a[1]) > Ord(b[1])
    ELSE StrGT(Tail(a), Tail(b))

\* (score, x) > (score', x') of two of get_close_matches' result tuples
ScoredGT(p, q) ==
    \/ FracGT(p[1], q[1])
    \/ FracEQ(p[1], q[1]) /\ StrGT(p[2], q[2])

\* sorted(result, reverse=True): equal tuples are equal in every part, so
\* the order among them does not show.
RECURSIVE SortedDesc(_)
SortedDesc(s) ==
    IF s = <<>> THEN <<>>
    ELSE LET top == SetMin({i \in 1..Len(s) :
                               \A j \in 1..Len(s) : ~ScoredGT(s[j], s[i])})
         IN  <<s[top]>> \o SortedDesc([i \in 1..(Len(s) - 1) |->
                                          IF i < top THEN s[i] ELSE s[i + 1]])

Take(s, n) == SubSeq(s, 1, Min(n, Len(s)))

\* get_close_matches(word, possibilities, n, cutoff): the possibilities x
\* with SequenceMatcher(a=x, b=word).ratio() >= cutoff, the n best of them,
\* best first
RECURSIVE Scored(_, _, _)
Scored(word, possibilities, cutoff) ==
    IF possibilities = <<>> THEN <<>>
    ELSE LET x == possibilities[1]
             rest == Scored(word, Tail(possibilities), cutoff)
         IN  IF FracGE(Ratio(x, word), cutoff)
             THEN <<<<Ratio(x, word), x>>>> \o rest
             ELSE rest

get_close_matches(word, possibilities, n, cutoff) ==
    LET best == Take(SortedDesc(Scored(word, possibilities, cutoff)), n)
    IN  [i \in 1..Len(best) |-> best[i][2]]

\* round(score, 3), in thousandths: to the nearest, a tie to the even one
Round3(score) ==
    LET x == score[1] * 1000
        f == x \div score[2]
        r == x % score[2]
    IN  IF 2 * r > score[2] THEN f + 1
        ELSE IF 2 * r < score[2] THEN f
        ELSE IF f % 2 = 0 THEN f ELSE f + 1

(***************************************************************************)
(* CIKLookup.by_name over a loaded directory                               *)
(***************************************************************************)

\* min_score=None, and MIN_MATCH_SCORE as a fraction
NoMinScore == <<None, 1>>
DefaultMinScore == <<MIN_MATCH_SCORE, 1000>>

\* CompanyMatch(cik, ticker, company_name, match_score, match_type), the
\* score in thousandths
CompanyMatch(cik, company_name, match_score, match_type) ==
    [cik |-> cik, company_name |-> company_name,
     match_score |-> match_score, match_type |-> match_type]

\* any(m.cik == cik for m in matches)
HasCik(matches, cik) == \E i \in 1..Len(matches) : matches[i].cik = cik

\* by_name: the exact pass, which stops at the first company whose name is
\* search_name but for the case of its letters
ExactPass(search_name) ==
    LET Same(company_name) == StrLower(company_name) = StrLower(search_name)
    IN  IF \E i \in 1..Len(company_names) : Same(company_names[i][2])
        THEN LET item == company_names[SetMin({i \in 1..Len(company_names) :
                                                   Same(company_names[i][2])})]
             IN  <<CompanyMatch(item[1], item[2], 1000, "exact")>>
        ELSE <<>>

\* by_name: the normalized pass, made when the exact pass found nothing
NormalizedPass(matches, normalized_search) ==
    IF matches = <<>> /\ normalized_search \in DictKeys(name_to_cik)
    THEN LET cik == DictGet(name_to_cik, normalized_search)
         IN  Append(matches, CompanyMatch(cik, DictGet(company_names, cik),
                                          950, "normalized"))
    ELSE matches

\* by_name: the loop over close_matches of the fuzzy pass
RECURSIVE FuzzyLoop(_, _, _, _)
FuzzyLoop(matches, close_matches, search_name, min_score) ==
    IF close_matches = <<>> THEN matches
    ELSE LET match_name == close_matches[1]
             cik == company_names[SetMin({i \in 1..Len(company_names) :
                                             company_names[i][2] = match_name})][1]
             score == Ratio(StrLower(search_name), StrLower(match_name))
             next == IF HasCik(matches, cik) THEN matches
                     ELSE IF FracGE(score, min_score)
                          THEN Append(matches,
                                      CompanyMatch(cik, match_name,
                                                   Round3(score), "fuzzy"))
                          ELSE matches
         IN  FuzzyLoop(next, Tail(close_matches), search_name, min_score)

\* by_name: the loop over close_normalized of the second fuzzy pass
RECURSIVE FuzzyNormalizedLoop(_, _, _, _)
FuzzyNormalizedLoop(matches, close_normalized, normalized_search, min_score) ==
    IF close_normalized = <<>> THEN matches
    ELSE LET norm_name == close_normalized[1]
             cik == DictGet(name_to_cik, norm_name)
             score == Ratio(normalized_search, norm_name)
             next == IF HasCik(matches, cik) THEN matches
                     ELSE IF FracGE(score, min_score)
                          THEN Append(matches,
                                      CompanyMatch(cik,
                                                   DictGet(company_names, cik),
                                                   Round3(score),
                                                   "fuzzy_normalized"))
                          ELSE matches
         IN  FuzzyNormalizedLoop(next, Tail(close_normalized),
                                 normalized_search, min_score)

DictValues(d) == [i \in 1..Len(d) |-> d[i][2]]
DictKeyList(d) == [i \in 1..Len(d) |-> d[i][1]]

\* A sort that leaves the list as it is.
Unsorted(matches) == matches

\* matches.sort(key=lambda x: x.match_score, reverse=True): a stable sort
RECURSIVE SortByScore(_)
SortByScore(matches) ==
    IF matches = <<>> THEN <<>>
    ELSE LET top == SetMin({i \in 1..Len(matches) :
                               \A j \in 1..Len(matches) :
                                  matches[j].match_score
                                      <= matches[i].match_score})
         IN  <<matches[top]>>
                \o SortByScore([i \in 1..(Len(matches) - 1) |->
                                   IF i < top THEN matches[i]
                                   ELSE matches[i + 1]])

\* min_score = min_score or self.MIN_MATCH_SCORE
EffectiveMinScore(min_score) ==
    IF min_score[1] = None \/ min_score[1] = 0
    THEN DefaultMinScore ELSE min_score

\* by_name(name, limit, min_score) for a name that is not blank and a limit
\* of zero or more: the four passes, the sort and the cut to limit.  The
\* empty list stands for CompanyNotFoundError.
by_name(name, limit, min_score_arg) ==
    LET min_score == EffectiveMinScore(min_score_arg)
        search_name == StrStrip(name)
        normalized_search == normalize_name(search_name)
        exact == ExactPass(search_name)
        normalized == NormalizedPass(exact, normalized_search)
        fuzzy ==
            IF Len(normalized) < limit
            THEN FuzzyLoop(normalized,
                           get_close_matches(search_name,
                                             DictValues(company_names),
                                             limit * 2,
                                             <<min_score[1] * 8,
                                               min_score[2] * 10>>),
                           search_name, min_score)
            ELSE normalized
        fuzzy_normalized ==
            IF Len(fuzzy) < limit
            THEN FuzzyNormalizedLoop(fuzzy,
                                     get_close_matches(normalized_search,
                                                       DictKeyList(name_to_cik),
                                                       limit, min_score),
                                     normalized_search, min_score)
            ELSE fuzzy
    IN  Take(SortByScore(fuzzy_normalized), limit)

(***************************************************************************)
(* CIKLookup.by_ticker over a loaded directory and a cache that holds      *)
(* submissions documents                                                   *)
(***************************************************************************)

\* Every way of writing word in upper and lower case.
RECURSIVE CaseMixes(_)
CaseMixes(word) ==
    IF word = <<>> THEN {<<>>}
    ELSE {<<c>> \o rest : c \in {LowerChar(word[1]), UpperChar(word[1])},
                          rest \in CaseMixes(Tail(word))}

Padded(words) ==
    {left \o w \o right : left \in {<<>>, <<" ">>}, w \in words,
                          right \in {<<>>, <<" ">>}}

AAPL == <<"A", "A", "P", "L">>
OLD == <<"O", "L", "D">>

\* A word in upper case, in lower case, and in alternating case.
CaseForms(word) ==
    {word,
     [i \in 1..Len(word) |-> LowerChar(word[i])],
     [i \in 1..Len(word) |->
         IF i % 2 = 1 THEN LowerChar(word[i]) ELSE UpperChar(word[i])]}

\* The tickers passed to by_ticker.
TickerArgSeqs ==
    Padded(CaseForms(AAPL) \cup CaseForms(OLD))
        \cup {<<>>, <<" ">>, <<" ", " ">>, <<"Z", "Z">>, <<"A", " ", "A", "P", "L">>}

\* The entries of company_tickers.json: {"cik_str": ..., "ticker": ...,
\* "title": ...}
AppleInc == <<"A", "p", "p", "l", "e", " ", "I", "n", "c", ".">>
TickerEntries ==
    {[cik_str |-> 320193, ticker |-> AAPL, title |-> AppleInc],
     [cik_str |-> 320193, ticker |-> <<"A", "a", "p", "l">>,
      title |-> AppleInc],
     [cik_str |-> 42, ticker |-> OLD, title |-> AppleInc]}

SeqsUpTo(S, n) == UNION {[1..k -> S] : k \in 0..n}

\* A submissions document as the SEC serves it.  Its 'cik' member is the
\* SEC's text, with or without leading zeros, or is missing.
SubmissionsDocs ==
    {[of |-> n, cik |-> c, tickers |-> <<tk>>] :
        n \in {42},
        c \in {Zfill(Str(42), 10), Str(42), <<>>},
        tk \in {"OLD", "AAPL"}}

\* _make_request: self.cache.set(cache_key, data, tier=cache_tier,
\* ticker=data.get('tickers', [None])[0], ...) of a fetched submissions
\* document
StoreSubmissions ==
    /\ cstats.sets < MaxStores
    /\ \E data \in SubmissionsDocs :
        LET key == CacheKey("submissions", Text(Zfill(Str(data.of), 10)))
        IN  /\ cache' = CacheSetRow(cache, key, data, Tier("submissions"),
                                    None, data.tickers[1], NULL, now, tz)
            /\ cres' = [NoCall EXCEPT !.op = "set", !.key = key,
                                      !.ticker = data.tickers[1]]
    /\ cstats' = [cstats EXCEPT !.sets = @ + 1]
    /\ UNCHANGED <<now, tz, ops, persisted, chist, cthr, rlVars, clientVars>>

\* by_ticker(ticker, allow_delisted) with the directory loaded, on behalf of
\* the call recorded in rec: the direct lookup and, if it is consulted,
\* cache.get_by_ticker.  Each outcome is the record of what by_ticker
\* returned or raised, with the row of the cache it read, if any.
ByTicker(rec, arg, allow_delisted) ==
    LET ticker == TickerKey(arg)
        rows == TickerRows(cache, Text(ticker), now)
    IN  IF ConsultsCache(ticker, allow_delisted)
        THEN IF rows = {}
             THEN {[rec |-> [rec EXCEPT !.exc = "TickerNotFoundError"],
                    consulted |-> TRUE, key |-> NULL,
                    ticker |-> Text(ticker)]}
             ELSE {[rec |-> ByTickerCached(rec, cache, key, now),
                    consulted |-> TRUE, key |-> key,
                    ticker |-> Text(ticker)] : key \in NewestRows(cache, rows)}
        ELSE {[rec |-> ByTickerDirect(rec, ticker), consulted |-> FALSE,
               key |-> NULL, ticker |-> Text(ticker)]}

\* What by_ticker's cache.get_by_ticker(ticker) does to the cache: nothing
\* when it is not called, else the SELECT by ticker and, for a row found,
\* self.get(key).
GetByTicker(out) ==
    IF ~out.consulted
    THEN UNCHANGED <<cache, cstats, chist, cres>>
    ELSE IF out.key = NULL
         THEN /\ cres' = [NoCall EXCEPT !.op = "get_by_ticker",
                                        !.ticker = out.ticker]
              /\ UNCHANGED <<cache, cstats, chist>>
         ELSE /\ cache' = CacheGetTouch(cache, out.key, TRUE, now)
              /\ cstats' = CacheGetCount(cstats, cache, out.key, TRUE, now)
              /\ chist' = [chist EXCEPT !.gets = @ + 1]
              /\ cres' = [NoCall EXCEPT !.op = "get_by_ticker",
                                        !.ticker = out.ticker,
                                        !.key = out.key]

\* What a lookup call leaves alone.
lookupFixed == <<now, rlVars, tz, ops, persisted, cthr, request_count,
                 cache_hit_count, loaded, thr, last, prev, ecalls,
                 ticker_to_cik, cik_to_ticker, company_names, name_to_cik,
                 profileVars>>

\* by_ticker(ticker, allow_delisted) called on the CIKLookup
ByTickerReturns(call, arg, allow_delisted) ==
    LET rec == [call EXCEPT !.op = "by_ticker", !.arg = arg,
                            !.allow_delisted = allow_delisted,
                            !.ticker = TickerKey(arg)]
    IN  \E out \in ByTicker(rec, arg, allow_delisted) :
            /\ lookup' = out.rec
            /\ GetByTicker(out)

\* The record of the next call made on the CIKLookup.
NextLookup == [NoLookup EXCEPT !.calls = lookup.calls + 1]

ByTickerCall ==
    /\ loaded
    /\ lookup.calls < MaxLookups
    /\ \E arg \in TickerArgSeqs, allow_delisted \in BOOLEAN :
          ByTickerReturns(NextLookup, arg, allow_delisted)
    /\ UNCHANGED lookupFixed

\* enrich_by_ticker(ticker) up to its lookup: ticker = ticker.upper().strip(),
\* then self.cik_lookup.by_ticker(ticker); a TickerNotFoundError becomes the
\* failed result.
EnrichByTickerLookup ==
    /\ loaded
    /\ lookup.calls < MaxLookups
    /\ \E arg \in TickerArgSeqs :
        LET ticker == StrStrip(StrUpper(arg))
            rec == [NoLookup EXCEPT !.op = "enrich_by_ticker", !.arg = arg,
                                    !.ticker = TickerKey(ticker),
                                    !.calls = lookup.calls + 1]
        IN  \E out \in ByTicker(rec, ticker, FALSE) :
                /\ lookup' = out.rec
                /\ GetByTicker(out)
    /\ UNCHANGED lookupFixed

\* str.isalnum() and str.isupper()
IsAlnum(s) ==
    /\ s # <<>>
    /\ \A i \in 1..Len(s) : WordChar(s[i]) /\ s[i] # "_"
\* An isupper() that asks for an upper-case letter and allows lower-case ones.
IsUpperSomeUpper(s) ==
    \E i \in 1..Len(s) : s[i] \in Range(UpperLetters)

IsUpper(s) ==
    /\ \E i \in 1..Len(s) : s[i] \in Range(UpperLetters)
    /\ \A i \in 1..Len(s) : s[i] \notin Range(LowerLetters)

\* The identifiers passed to resolve.
X1 == <<"X", "1">>
X1Corp == <<"X", "1", " ", "C", "o", "r", "p">>
Identifiers ==
    TickerArgSeqs \cup {AppleInc, X1, <<"x", "1">>, <<" ", "X", "1">>, X1Corp,
                        <<"1", "2">>, <<"A", "A", "P", "L", "X", "1">>}

\* resolve(identifier, prefer_ticker): the ticker first and then the name for
\* an identifier that looks like a ticker, else the name first and then the
\* ticker
ResolveReturns(call, arg, prefer_ticker) ==
    LET identifier == StrStrip(arg)
        rec == [call EXCEPT !.op = "resolve", !.arg = arg,
                            !.prefer_ticker = prefer_ticker,
                            !.ticker = TickerKey(identifier),
                            !.name = identifier, !.limit = 1,
                            !.min_score = NoMinScore]
        is_likely_ticker ==
            Len(identifier) <= 5 /\ IsAlnum(identifier)
                /\ IsUpper(identifier)
    IN  IF identifier = <<>>
        THEN /\ lookup' = [rec EXCEPT !.exc = "CIKLookupError"]
             /\ UNCHANGED <<cache, cstats, chist, cres>>
        ELSE \E matches \in {by_name(identifier, 1, NoMinScore)},
                out \in ByTicker(rec, identifier, FALSE) :
             IF is_likely_ticker /\ prefer_ticker
             THEN /\ lookup' =
                       IF out.rec.exc = NULL THEN out.rec
                       ELSE IF matches = <<>>
                            THEN [rec EXCEPT
                                    !.exc = "CompanyNotFoundError"]
                            ELSE [rec EXCEPT !.matches = matches]
                  /\ GetByTicker(out)
             ELSE IF matches # <<>>
                  THEN /\ lookup' = [rec EXCEPT !.matches = matches]
                       /\ UNCHANGED <<cache, cstats, chist, cres>>
                  ELSE /\ lookup' =
                            IF out.rec.exc = NULL THEN out.rec
                            ELSE [rec EXCEPT !.exc = "CIKLookupError"]
                       /\ GetByTicker(out)

ResolveCall ==
    /\ loaded
    /\ lookup.calls < MaxLookups
    /\ \E arg \in Identifiers, prefer_ticker \in BOOLEAN :
          ResolveReturns(NextLookup, arg, prefer_ticker)
    /\ UNCHANGED lookupFixed

InitTickerLookup ==
    /\ now = StartTime
    /\ RLInit(1, 1)
    /\ CacheInit(0)
    /\ ClientFields(TRUE)
    /\ \E entries \in SeqsUpTo(TickerEntries, MaxEntries) :
          LookupInit(entries)

NextTickerLookup ==
    \/ StoreSubmissions
    \/ ByTickerCall
    \/ EnrichByTickerLookup
    \/ ResolveCall

SpecTickerLookup == InitTickerLookup /\ [][NextTickerLookup]_vars

\* u is t without the whitespace around it and with each lower-case letter
\* replaced by its capital.
IsUpperTrimmedOf(u, t) ==
    \E i, j \in 0..Len(t) :
        /\ i + j <= Len(t)
        /\ \A k \in 1..i : t[k] = " "
        /\ \A k \in (Len(t) - j + 1)..Len(t) : t[k] = " "
        /\ Len(u) = Len(t) - i - j
        /\ u # <<>> => t[i + 1] # " " /\ t[Len(t) - j] # " "
        /\ \A k \in 1..Len(u) :
              \/ \E n \in 1..26 : /\ t[i + k] \in {LowerLetters[n],
                                                   UpperLetters[n]}
                                  /\ u[k] = UpperLetters[n]
              \/ /\ t[i + k] \notin Range(LowerLetters) \cup Range(UpperLetters)
                 /\ u[k] = t[i + k]

\* The upper-cased, trimmed forms the tickers passed to by_ticker can have.
TickerForms ==
    DictKeys(ticker_to_cik) \cup Padded(CaseMixes(AAPL) \cup CaseMixes(OLD))
        \cup {<<>>, <<"Z", "Z">>, <<"A", " ", "A", "P", "L">>}

(***************************************************************************)
(* C27: with the directory loaded, by_ticker(t) returns the canonical id   *)
(* the directory maps to the upper-cased, trimmed form of t, for every mix *)
(* of upper and lower case in t, and raises TickerNotFoundError when that  *)
(* ticker is absent from the directory (and the fallback is not asked for) *)
(* or t is empty.                                                          *)
(***************************************************************************)
C27_ByTickerIsCaseInsensitiveExactMatch ==
    [][(lookup'.op = "by_ticker" /\ lookup'.calls = lookup.calls + 1) =>
          \E u \in TickerForms :
              /\ IsUpperTrimmedOf(u, lookup'.arg)
              /\ u \in DictKeys(ticker_to_cik) =>
                    /\ lookup'.exc = NULL
                    /\ lookup'.ret = DictGet(ticker_to_cik, u)
              /\ u = <<>> => lookup'.exc = "TickerNotFoundError"
              /\ (u \notin DictKeys(ticker_to_cik)
                    /\ ~lookup'.allow_delisted) =>
                       lookup'.exc = "TickerNotFoundError"]_vars

C27_Witness ==
    /\ lookup.op = "by_ticker"
    /\ lookup.arg = <<" ", "a", "A", "p", "L", " ">>
    /\ lookup.exc = NULL
    /\ lookup.ret = <<"0", "0", "0", "0", "3", "2", "0", "1", "9", "3">>

(***************************************************************************)
(* C28: every value returned by by_ticker, on the directory path and on    *)
(* the delisted-fallback path alike, is a canonical id in fixed-width      *)
(* form: a string of 10 characters, each a decimal digit.                  *)
(***************************************************************************)
C28_ByTickerReturnsFixedWidthId ==
    (lookup.op = "by_ticker" /\ lookup.exc = NULL) =>
        /\ Len(lookup.ret) = 10
        /\ \A i \in 1..Len(lookup.ret) : lookup.ret[i] \in Range(DigitChars)

(***************************************************************************)
(* CIKLookup.by_name called on a loaded directory                          *)
(***************************************************************************)

\* The names, limits and minimum scores passed to by_name.
NameArgSeqs ==
    {<<"A", "p", "p", "l", "e", " ", "I", "n", "c", ".">>, <<" ", "a", "p", "p", "l", "e", " ", "i", "n", "c", ".", " ">>, <<"A", "p", "p", "l", "e">>, <<"A", "p", "p", "l">>, <<"Z", "e", "b", "r", "a">>, <<" ">>}
Limits == 1..MaxLimit
MinScores ==
    {NoMinScore, <<0, 1>>, <<5714, 10000>>, <<8, 10>>, <<97, 100>>}

\* The entries of company_tickers.json the names are searched in.
NameTitles == {<<"A", "p", "p", "l", "e", " ", "I", "n", "c", ".">>, <<"A", "p", "p", "l", "e", ",", " ", "I", "n", "c", ".">>, <<"A", "p", "p", "l", "e", " ", "C", "o", "r", "p">>, <<"A", "p", "p", "i", "a", "n", " ", "C", "o", "r", "p">>}
NameEntries ==
    {[cik_str |-> n, ticker |-> Str(n), title |-> title] :
        n \in {1, 2}, title \in NameTitles}

\* by_name(name, limit, min_score) with the directory loaded
ByNameReturns(call, name, limit, min_score) ==
    LET rec == [call EXCEPT !.op = "by_name", !.name = name,
                            !.limit = limit, !.min_score = min_score]
    IN  IF StrStrip(name) = <<>>
        THEN lookup' = [rec EXCEPT !.exc = "CompanyNotFoundError"]
        ELSE \E matches \in {by_name(name, limit, min_score)} :
                 IF matches = <<>>
                 THEN lookup' = [rec EXCEPT !.exc = "CompanyNotFoundError"]
                 ELSE lookup' = [rec EXCEPT !.matches = matches]

ByNameCall ==
    /\ loaded
    /\ lookup.calls < MaxLookups
    /\ \E name \in NameArgSeqs, limit \in Limits, min_score \in MinScores :
          ByNameReturns(NextLookup, name, limit, min_score)
    /\ UNCHANGED <<now, rlVars, cacheVars, request_count, cache_hit_count,
                   loaded, thr, last, prev, ecalls, ticker_to_cik,
                   cik_to_ticker, company_names, name_to_cik, profileVars>>

InitNameLookup ==
    /\ now = StartTime
    /\ RLInit(1, 1)
    /\ CacheInit(0)
    /\ ClientFields(TRUE)
    /\ \E entries \in SeqsUpTo(NameEntries, MaxNameEntries) :
          LookupInit(entries)

NextNameLookup == ByNameCall

SpecNameLookup == InitNameLookup /\ [][NextNameLookup]_vars

\* company_name is name without the whitespace around it, but for the case
\* of its letters.
IsSameNameIgnoringCase(company_name, name) ==
    \E i, j \in 0..Len(name) :
        /\ i + j + Len(company_name) = Len(name)
        /\ \A k \in 1..i : name[k] = " "
        /\ \A k \in (Len(name) - j + 1)..Len(name) : name[k] = " "
        /\ \A k \in 1..Len(company_name) :
              \/ company_name[k] = name[i + k]
              \/ \E n \in 1..26 :
                    {company_name[k], name[i + k]}
                        = {LowerLetters[n], UpperLetters[n]}

\* The threshold a by_name call asks for, as a fraction: min_score, or
\* MIN_MATCH_SCORE when none is given.
AskedMinScore ==
    IF lookup.min_score[1] = None
    THEN <<MIN_MATCH_SCORE, 1000>> ELSE lookup.min_score

\* The list by_name returned holds no canonical id twice, is sorted by score
\* in non-increasing order and has at most `limit` entries; its exact match
\* has score 1.0 and its normalized match 0.95.
ByNameListIsWellFormed ==
    LET m == lookup.matches
    IN  /\ \A i, j \in 1..Len(m) : i # j => m[i].cik # m[j].cik
        /\ \A i \in 1..(Len(m) - 1) : m[i].match_score >= m[i + 1].match_score
        /\ Len(m) <= lookup.limit
        /\ \A i \in 1..Len(m) :
              /\ m[i].match_type = "exact" =>
                    /\ m[i].match_score = 1000
                    /\ IsSameNameIgnoringCase(m[i].company_name, lookup.name)
              /\ m[i].match_type = "normalized" => m[i].match_score = 950

Approximate(match) == match.match_type \in {"fuzzy", "fuzzy_normalized"}

C29_FallbackIsOptIn ==
    [][(lookup'.calls = lookup.calls + 1 /\ ~lookup'.allow_delisted) =>
          /\ lookup'.op \in {"by_ticker", "enrich_by_ticker", "resolve"}
          /\ UNCHANGED <<cache, cstats, chist, cres>>
          /\ lookup'.ret # <<>> =>
                /\ lookup'.ticker \in DictKeys(ticker_to_cik)
                /\ lookup'.ret = DictGet(ticker_to_cik, lookup'.ticker)
          /\ (/\ lookup'.op \in {"by_ticker", "enrich_by_ticker"}
              /\ lookup'.ticker \notin DictKeys(ticker_to_cik)) =>
                 lookup'.exc = "TickerNotFoundError"
          /\ (/\ lookup'.op = "resolve"
              /\ lookup'.ticker \notin DictKeys(ticker_to_cik)
              /\ lookup'.matches = <<>>) =>
                 lookup'.exc \in {"CIKLookupError", "CompanyNotFoundError"}
      ]_vars

C29_Witness ==
    /\ lookup.op \in {"enrich_by_ticker", "by_ticker"}
    /\ ~lookup.allow_delisted
    /\ lookup.ticker = OLD
    /\ lookup.exc = "TickerNotFoundError"
    /\ \E key \in DOMAIN cache :
          /\ cache[key].ticker = "OLD"
          /\ now < cache[key].expires_instant
          /\ JsonLoads(cache[key].data).cik # <<>>
          /\ cache[key].access_count = 0

(***************************************************************************)
(* C31: by_name raises CompanyNotFoundError for an empty name and whenever *)
(* no candidate has a score at or above the min_score the caller passed:   *)
(* a call that returns matches returns at least one whose score (a ratio   *)
(* rounded to three decimals) is at or above that min_score.               *)
(***************************************************************************)
C31_ByNameReturnsOnlyWhenACandidateClearsMinScore ==
    lookup.op = "by_name" =>
        /\ StrStrip(lookup.name) = <<>> =>
              lookup.exc = "CompanyNotFoundError"
        /\ lookup.exc = NULL =>
              \E i \in 1..Len(lookup.matches) :
                  (lookup.matches[i].match_score * 10 + 5) * AskedMinScore[2]
                      >= 10000 * AskedMinScore[1]

(***************************************************************************)
(* CIKLookup.resolve called on a loaded directory whose entries have       *)
(* tickers that are names too                                              *)
(***************************************************************************)

\* The entries of company_tickers.json resolve is called on.
ResolveEntries ==
    {[cik_str |-> 320193, ticker |-> AAPL, title |-> AppleInc],
     [cik_str |-> 7, ticker |-> X1, title |-> X1Corp],
     [cik_str |-> 42, ticker |-> OLD, title |-> X1Corp]}

InitResolve ==
    /\ now = StartTime
    /\ RLInit(1, 1)
    /\ CacheInit(0)
    /\ ClientFields(TRUE)
    /\ \E entries \in SeqsUpTo(ResolveEntries, MaxEntries) :
          LookupInit(entries)

NextResolve == ResolveCall

SpecResolve == InitResolve /\ [][NextResolve]_vars

\* What a resolve call that tried the ticker first and the name second, or
\* the name first and the ticker second, ends with.
ResolvedTickerFirst ==
    LET identifier == StrStrip(lookup.arg)
        ticker == [i \in 1..Len(identifier) |-> UpperChar(identifier[i])]
        named == by_name(identifier, 1, NoMinScore)
    IN  IF ticker \in DictKeys(ticker_to_cik)
        THEN /\ lookup.exc = NULL
             /\ lookup.ret = DictGet(ticker_to_cik, ticker)
             /\ lookup.matches = <<>>
        ELSE IF named # <<>>
             THEN /\ lookup.exc = NULL
                  /\ lookup.matches = named
                  /\ lookup.ret = <<>>
             ELSE lookup.exc \in {"CIKLookupError", "CompanyNotFoundError"}

ResolvedNameFirst ==
    LET identifier == StrStrip(lookup.arg)
        ticker == [i \in 1..Len(identifier) |-> UpperChar(identifier[i])]
        named == by_name(identifier, 1, NoMinScore)
    IN  IF named # <<>>
        THEN /\ lookup.exc = NULL
             /\ lookup.matches = named
             /\ lookup.ret = <<>>
        ELSE IF ticker \in DictKeys(ticker_to_cik)
             THEN /\ lookup.exc = NULL
                  /\ lookup.ret = DictGet(ticker_to_cik, ticker)
                  /\ lookup.matches = <<>>
             ELSE lookup.exc \in {"CIKLookupError", "CompanyNotFoundError"}

\* The identifier of the resolve call, trimmed, has at most 5 characters,
\* all of them in the given set, at least one of them an upper-case letter.
ShortUpperOver(chars) ==
    LET identifier == StrStrip(lookup.arg)
    IN  /\ Len(identifier) <= 5
        /\ \A i \in 1..Len(identifier) : identifier[i] \in chars
        /\ \E i \in 1..Len(identifier) : identifier[i] \in Range(UpperLetters)

(***************************************************************************)
(* C32: resolve(identifier) dispatches by the heuristic: an identifier of  *)
(* at most 5 characters that is fully uppercase and alphabetic is looked   *)
(* up as a ticker first and searched by name only if the ticker is absent; *)
(* every other identifier is searched by name first and looked up as a     *)
(* ticker only if the name search finds nothing; when both lookups fail    *)
(* resolve raises a lookup error.                                          *)
(***************************************************************************)
C32_ResolveTickerFirstForShortUpperAlphabetic ==
    (lookup.op = "resolve" /\ lookup.prefer_ticker
        /\ StrStrip(lookup.arg) # <<>>) =>
        IF ShortUpperOver(Range(UpperLetters))
        THEN ResolvedTickerFirst ELSE ResolvedNameFirst

(***************************************************************************)
(* C32, amended: resolve(identifier) dispatches by the heuristic: an       *)
(* identifier that, trimmed, has at most 5 characters, all of them letters *)
(* or digits, none a lower-case letter and at least one an upper-case      *)
(* letter, is looked up as a ticker first and searched by name only if the *)
(* ticker is absent; every other identifier is searched by name first and  *)
(* looked up as a ticker only if the name search finds nothing; when both  *)
(* lookups fail resolve raises a lookup error (as it does for an empty     *)
(* identifier).                                                            *)
(***************************************************************************)
C32_ResolveTickerFirstForShortUpperAlphanumeric ==
    (lookup.op = "resolve" /\ lookup.prefer_ticker) =>
        IF StrStrip(lookup.arg) = <<>>
        THEN lookup.exc = "CIKLookupError"
        ELSE IF ShortUpperOver(Range(UpperLetters) \cup Range(DigitChars))
             THEN ResolvedTickerFirst ELSE ResolvedNameFirst

C32_Witness ==
    /\ lookup.op = "resolve"
    /\ lookup.prefer_ticker
    /\ lookup.arg = <<" ", "X", "1">>
    /\ lookup.exc = NULL
    /\ lookup.ret = <<"0", "0", "0", "0", "0", "0", "0", "0", "0", "7">>
    /\ by_name(X1, 1, NoMinScore) # <<>>

(***************************************************************************)
(* CIKLookup.search_by_prefix                                              *)
(***************************************************************************)

\* str.startswith
StartsWith(s, x) == Len(s) >= Len(x) /\ SubSeq(s, 1, Len(x)) = x

\* search_by_prefix: the loop over self._ticker_to_cik.items(), from its
\* i-th item on, which appends a match and only then compares the length
\* of the list with the limit
RECURSIVE TickerPrefixLoop(_, _, _, _)
TickerPrefixLoop(i, matches, prefix, limit) ==
    IF i > Len(ticker_to_cik) THEN matches
    ELSE IF StartsWith(ticker_to_cik[i][1], prefix)
         THEN LET cik == ticker_to_cik[i][2]
                  company_name ==
                      IF cik \in DictKeys(company_names)
                      THEN DictGet(company_names, cik) ELSE <<>>
                  found == Append(matches,
                                  CompanyMatch(cik, company_name, 1000,
                                               "ticker_prefix"))
              IN  IF Len(found) >= limit THEN found
                  ELSE TickerPrefixLoop(i + 1, found, prefix, limit)
         ELSE TickerPrefixLoop(i + 1, matches, prefix, limit)

\* search_by_prefix: the loop over self._company_names.items(), which skips
\* a cik already found
RECURSIVE NamePrefixLoop(_, _, _, _)
NamePrefixLoop(i, matches, prefix, limit) ==
    IF i > Len(company_names) THEN matches
    ELSE IF /\ StartsWith(StrUpper(company_names[i][2]), prefix)
            /\ ~HasCik(matches, company_names[i][1])
         THEN LET found == Append(matches,
                                  CompanyMatch(company_names[i][1],
                                               company_names[i][2], 900,
                                               "name_prefix"))
              IN  IF Len(found) >= limit THEN found
                  ELSE NamePrefixLoop(i + 1, found, prefix, limit)
         ELSE NamePrefixLoop(i + 1, matches, prefix, limit)

search_by_prefix(prefix_arg, limit) ==
    LET prefix == StrUpper(prefix_arg)
        matches == TickerPrefixLoop(1, <<>>, prefix, limit)
    IN  IF Len(matches) < limit
        THEN NamePrefixLoop(1, matches, prefix, limit)
        ELSE matches

\* The entries of company_tickers.json searched by prefix: two share classes
\* of one company have one cik.
GOOG == <<"G", "O", "O", "G">>
GOOGL == <<"G", "O", "O", "G", "L">>
AlphabetInc == <<"A", "l", "p", "h", "a", "b", "e", "t", " ", "I", "n", "c", ".">>
PrefixEntries ==
    {[cik_str |-> 320193, ticker |-> AAPL, title |-> AppleInc],
     [cik_str |-> 1652044, ticker |-> GOOGL, title |-> AlphabetInc],
     [cik_str |-> 1652044, ticker |-> GOOG, title |-> AlphabetInc],
     [cik_str |-> 42, ticker |-> OLD, title |-> <<"A", "p", "p", "l", "e", " ", "O", "l", "d", " ", "C", "o">>]}
Prefixes == {<<>>, <<"a">>, <<"A">>, <<"a", "p">>, <<"G", "O", "O">>, <<"g", "o", "o", "g">>, <<"Z">>, <<" ", "A">>}
PrefixLimits == 0..MaxLimit

\* search_by_prefix(prefix, limit) with the directory loaded
SearchByPrefixReturns(call, prefix, limit) ==
    lookup' = [call EXCEPT !.op = "search_by_prefix",
                           !.arg = prefix, !.limit = limit,
                           !.matches = search_by_prefix(prefix, limit)]

SearchByPrefixCall ==
    /\ loaded
    /\ lookup.calls < MaxLookups
    /\ \E prefix \in Prefixes, limit \in PrefixLimits :
          SearchByPrefixReturns(NextLookup, prefix, limit)
    /\ UNCHANGED <<lookupFixed, cache, cstats, chist, cres>>

InitPrefix ==
    /\ now = StartTime
    /\ RLInit(1, 1)
    /\ CacheInit(0)
    /\ ClientFields(TRUE)
    /\ \E entries \in SeqsUpTo(PrefixEntries, MaxNameEntries) :
          LookupInit(entries)

NextPrefix == SearchByPrefixCall

SpecPrefix == InitPrefix /\ [][NextPrefix]_vars

(***************************************************************************)
(* C33: search_by_prefix(prefix, limit) returns at most `limit` matches    *)
(* for every limit >= 0, holds no canonical id twice, and lists every      *)
(* ticker-prefix match (score 1.0) before every name-starts-with match     *)
(* (score 0.9), matching the prefix case-insensitively.                    *)
(***************************************************************************)
C33_SearchByPrefixList ==
    lookup.op = "search_by_prefix" =>
        LET m == lookup.matches
            prefix == [i \in 1..Len(lookup.arg) |-> UpperChar(lookup.arg[i])]
        IN  /\ Len(m) <= lookup.limit
            /\ \A i, j \in 1..Len(m) : i # j => m[i].cik # m[j].cik
            /\ \A i \in 1..Len(m) :
                  \/ /\ m[i].match_type = "ticker_prefix"
                     /\ m[i].match_score = 1000
                     /\ \E k \in 1..Len(ticker_to_cik) :
                           /\ ticker_to_cik[k][2] = m[i].cik
                           /\ StartsWith(ticker_to_cik[k][1], prefix)
                  \/ /\ m[i].match_type = "name_prefix"
                     /\ m[i].match_score = 900
                     /\ StartsWith([k \in 1..Len(m[i].company_name) |->
                                       UpperChar(m[i].company_name[k])],
                                   prefix)
            /\ \A i, j \in 1..Len(m) :
                  (m[i].match_type = "ticker_prefix"
                      /\ m[j].match_type = "name_prefix") => i < j

(***************************************************************************)
(* CIKLookup._load_mapping and refresh_mapping: the directory is read from *)
(* the cache or fetched from the SEC by the first call that needs it       *)
(***************************************************************************)

\* A _load_mapping that never takes the flag's word.
NeedsLoadAlways(is_loaded, force_refresh) == TRUE

\* `if self._loaded and not force_refresh: return True`, negated
NeedsLoad(is_loaded, force_refresh) == ~(is_loaded /\ ~force_refresh)

\* The payload cached under "__ticker_mapping__".
Mapping(entries) ==
    [ticker_to_cik |-> BuildTickerToCik(entries),
     cik_to_ticker |-> BuildCikToTicker(entries),
     company_names |-> BuildCompanyNames(entries),
     name_to_cik |-> BuildNameToCik(entries)]

\* The in-memory mappings become those of the payload.
SetMappings(m) ==
    /\ ticker_to_cik' = m.ticker_to_cik
    /\ cik_to_ticker' = m.cik_to_ticker
    /\ company_names' = m.company_names
    /\ name_to_cik' = m.name_to_cik

dictVars == <<ticker_to_cik, cik_to_ticker, company_names, name_to_cik>>

\* What the SEC serves as company_tickers.json, at one time and another.
OldEntry == [cik_str |-> 42, ticker |-> OLD, title |-> <<"O", "l", "d", " ", "C", "o">>]
AppleEntry == [cik_str |-> 320193, ticker |-> AAPL, title |-> AppleInc]
Directories == {<<AppleEntry>>, <<AppleEntry, OldEntry>>}

\* The outcomes of requests.get(TICKER_URL) and of what follows it: the
\* directory is served and processed; the request fails (a transport error,
\* or a status raise_for_status rejects); or the document is served and the
\* loop over its entries raises after `done` of them.
DirectoryResponses ==
    {[kind |-> "ok", entries |-> d, done |-> Len(d)] : d \in Directories}
        \cup {[kind |-> "request_failed", entries |-> <<>>, done |-> 0]}
        \cup {[kind |-> "bad_entry", entries |-> d, done |-> k] :
                 d \in Directories, k \in {0, 1}}

\* get_company_name(cik) and get_ticker(cik) once _load_mapping has
\* returned True: cik.zfill(10), then dict.get
GetByCikReturns(call, op, arg) ==
    LET cik == Zfill(arg, 10)
        d == IF op = "get_ticker" THEN cik_to_ticker ELSE company_names
    IN  lookup' = [call EXCEPT !.op = op, !.arg = arg,
                               !.ret = IF cik \in DictKeys(d)
                                       THEN DictGet(d, cik) ELSE <<>>]

\* The calls made on the CIKLookup: the method and its arguments.
DirectoryCalls ==
    {[op |-> "by_ticker", arg |-> a] : a \in {AAPL, <<"o", "l", "d">>, <<>>}}
        \cup {[op |-> "by_name", arg |-> a] : a \in {AppleInc, <<" ">>}}
        \cup {[op |-> "resolve", arg |-> a] : a \in {OLD}}
        \cup {[op |-> "search_by_prefix", arg |-> a] : a \in {<<"a">>}}
        \cup {[op |-> o, arg |-> a] :
                 o \in {"get_ticker", "get_company_name"}, a \in {<<"4", "2">>}}

\* The method returns what it returns over the mappings as they are.
Returns(call, c) ==
    CASE c.op = "by_ticker" -> ByTickerReturns(call, c.arg, FALSE)
      [] c.op = "resolve" -> ResolveReturns(call, c.arg, TRUE)
      [] c.op = "by_name" ->
            /\ ByNameReturns(call, c.arg, 1, NoMinScore)
            /\ UNCHANGED <<cache, cstats, chist, cres>>
      [] c.op = "search_by_prefix" ->
            /\ SearchByPrefixReturns(call, c.arg, MaxLimit)
            /\ UNCHANGED <<cache, cstats, chist, cres>>
      [] c.op \in {"get_ticker", "get_company_name"} ->
            /\ GetByCikReturns(call, c.op, c.arg)
            /\ UNCHANGED <<cache, cstats, chist, cres>>

\* The method ends because _load_mapping returned False.
LoadFailed(call) ==
    IF call.op \in {"by_ticker", "by_name", "resolve"}
    THEN [call EXCEPT !.pc = "idle", !.exc = "CIKLookupError"]
    ELSE IF call.op = "refresh_mapping"
         THEN [call EXCEPT !.pc = "idle", !.ret = <<"F", "a", "l", "s", "e">>]
         ELSE [call EXCEPT !.pc = "idle"]

\* by_ticker and by_name, and so resolve, reject an empty argument before
\* they call _load_mapping.
RejectsBeforeLoad(c) ==
    \/ c.op = "by_ticker" /\ TickerKey(c.arg) = <<>>
    \/ c.op \in {"by_name", "resolve"} /\ StrStrip(c.arg) = <<>>

directoryFixed == <<tz, ops, persisted, cthr, max_requests, window_seconds,
                    lock, acq, granted, resets, calls, query, adaptVars,
                    request_count, cache_hit_count, thr, last, prev, ecalls,
                    profileVars>>

\* A method of the CIKLookup is called.  Its _load_mapping() returns True at
\* once when the directory is loaded (and is not called for an argument the
\* method rejects first); else it asks the cache for the directory and, on
\* a miss, goes on to fetch it.
DirectoryLookup ==
    /\ lookup.pc = "idle"
    /\ lookup.calls < MaxDirectoryCalls
    /\ \E c \in DirectoryCalls :
        LET call == [NextLookup EXCEPT !.op = c.op, !.arg = c.arg,
                                       !.was_loaded = loaded]
        IN  IF RejectsBeforeLoad(c) \/ ~NeedsLoad(loaded, FALSE)
            THEN /\ lookup' = [call EXCEPT !.pc = "loaded"]
                 /\ UNCHANGED <<cache, cstats, chist, cres, loaded, dictVars>>
            ELSE /\ cache' = CacheGetTouch(cache, MappingKey, TRUE, now)
                 /\ cstats' = CacheGetCount(cstats, cache, MappingKey, TRUE, now)
                 /\ chist' = [chist EXCEPT !.gets = @ + 1]
                 /\ cres' = [NoCall EXCEPT !.op = "get", !.key = MappingKey]
                 /\ IF CacheGetHit(cache, MappingKey, TRUE, now)
                    THEN /\ SetMappings(CacheGetValue(cache, MappingKey,
                                                      TRUE, now))
                         /\ loaded' = TRUE
                         /\ lookup' = [call EXCEPT !.read = TRUE,
                                                   !.pc = "loaded"]
                    ELSE /\ lookup' = [call EXCEPT !.read = TRUE,
                                                   !.pc = "acquire"]
                         /\ UNCHANGED <<loaded, dictVars>>
    /\ UNCHANGED <<now, requests, stats, directoryFixed>>

\* refresh_mapping(): self._loaded = False, then
\* self._load_mapping(force_refresh=True), which skips the cache
RefreshMapping ==
    /\ lookup.pc = "idle"
    /\ lookup.calls < MaxDirectoryCalls
    /\ NeedsLoad(FALSE, TRUE)
    /\ loaded' = FALSE
    /\ lookup' = [NextLookup EXCEPT !.op = "refresh_mapping",
                                    !.force_refresh = TRUE,
                                    !.was_loaded = loaded,
                                    !.pc = "acquire"]
    /\ UNCHANGED <<now, requests, stats, cache, cstats, chist, cres, dictVars,
                   directoryFixed>>

\* _load_mapping: self.rate_limiter.acquire(), which grants the slot or
\* sleeps until the oldest grant leaves the window and tries again
DirectoryAcquire ==
    /\ \/ lookup.pc = "acquire"
       \/ lookup.pc = "rl_sleep" /\ now >= lookup.wake_at
    /\ LET cutoff == now - window_seconds
           reqs == Purge(requests, cutoff)
       IN  IF Len(reqs) < max_requests
           THEN /\ requests' = Append(reqs, now)
                /\ stats' = [stats EXCEPT !.total_requests = @ + 1,
                                          !.last_request_time = now,
                                          !.current_bucket_size = Len(reqs) + 1]
                /\ lookup' = [lookup EXCEPT !.pc = "fetch", !.grant = now]
           ELSE LET sleep_time == reqs[1] - cutoff
                IN  /\ stats.delayed_requests < MaxDelayed
                    /\ requests' = reqs
                    /\ stats' = [stats EXCEPT
                                   !.delayed_requests = @ + 1,
                                   !.total_delay_seconds = @ + sleep_time]
                    /\ lookup' = [lookup EXCEPT
                                    !.pc = "rl_sleep",
                                    !.wake_at = now + Max(0, sleep_time)]
    /\ UNCHANGED <<now, loaded, cache, cstats, chist, cres, dictVars,
                   directoryFixed>>

\* _load_mapping: requests.get(TICKER_URL), raise_for_status, the mappings
\* are emptied and built from the entries, the payload is cached and
\* _loaded set; a failure on the way makes it return False.
DirectoryFetch ==
    /\ lookup.pc = "fetch"
    /\ \E resp \in DirectoryResponses :
        LET call == [lookup EXCEPT !.fetched = @ + 1]
        IN  IF resp.kind = "ok"
            THEN /\ SetMappings(Mapping(resp.entries))
                 /\ cache' = CacheSetRow(cache, MappingKey,
                                         Mapping(resp.entries),
                                         "ticker_mapping", None, NULL, NULL,
                                         now, tz)
                 /\ cstats' = [cstats EXCEPT !.sets = @ + 1]
                 /\ cres' = [NoCall EXCEPT !.op = "set", !.key = MappingKey]
                 /\ loaded' = TRUE
                 /\ lookup' = IF call.op = "refresh_mapping"
                              THEN [call EXCEPT !.pc = "idle", !.ret = <<"T", "r", "u", "e">>]
                              ELSE [call EXCEPT !.pc = "loaded"]
            ELSE /\ IF resp.kind = "bad_entry"
                    THEN SetMappings(Mapping(SubSeq(resp.entries, 1,
                                                    resp.done)))
                    ELSE UNCHANGED dictVars
                 /\ lookup' = LoadFailed(call)
                 /\ UNCHANGED <<cache, cstats, cres, loaded>>
    /\ UNCHANGED <<now, requests, stats, chist, directoryFixed>>

\* _load_mapping has returned True to the method that called it, or the
\* method has not called it: the method returns over the mappings as they
\* are.
DirectoryLoaded ==
    /\ lookup.pc = "loaded"
    /\ Returns([lookup EXCEPT !.pc = "idle"],
               [op |-> lookup.op, arg |-> lookup.arg])
    /\ UNCHANGED <<now, requests, stats, loaded, dictVars, directoryFixed>>

\* The clock advances by a second.
DirectoryTick ==
    /\ now - StartTime < MaxTime
    /\ now' = now + 1
    /\ UNCHANGED <<rlVars, cacheVars, clientVars>>

InitDirectory ==
    /\ now = StartTime
    /\ RLInit(1, 1)
    /\ CacheInit(0)
    /\ ClientFields(FALSE)
    /\ LookupInit(<<>>)

NextDirectory ==
    \/ DirectoryLookup
    \/ RefreshMapping
    \/ DirectoryAcquire
    \/ DirectoryFetch
    \/ DirectoryLoaded
    \/ DirectoryTick

SpecDirectory == InitDirectory /\ [][NextDirectory]_vars

\* The methods of the CIKLookup that look something up in the directory.
LookupMethods == {"by_ticker", "by_name", "resolve", "search_by_prefix",
                  "get_ticker", "get_company_name"}

\* A lookup method called on a loaded directory goes on to its return with
\* the cache, the limiter and the flag as they are.
LookupOnLoadedIsLocal ==
    /\ (lookup'.calls = lookup.calls + 1 /\ lookup'.op \in LookupMethods
           /\ loaded) =>
          /\ lookup'.pc = "loaded"
          /\ loaded'
          /\ UNCHANGED <<cache, cstats, chist, requests, stats, dictVars>>
    /\ (lookup.pc = "loaded" /\ lookup.was_loaded /\ lookup' # lookup) =>
          /\ lookup'.pc = "idle"
          /\ ~lookup'.read
          /\ lookup'.fetched = 0
          /\ UNCHANGED <<cache, cstats, chist, requests, stats, loaded,
                         dictVars>>

\* refresh_mapping never asks the cache, returns only after one fetch made
\* on a slot the limiter granted to it within its capacity, and then either
\* returns True with the directory fetched in the cache and in memory, or
\* returns False, raising nothing, with the cache as it was.
RefreshAlwaysFetches ==
    /\ lookup'.op = "refresh_mapping" =>
          /\ ~lookup'.read
          /\ lookup'.pc = "idle" => lookup'.fetched = 1
    /\ (lookup.op = "refresh_mapping" /\ lookup'.fetched = lookup.fetched + 1) =>
          /\ lookup.pc = "fetch"
          /\ lookup.grant = requests[Len(requests)]
          /\ Cardinality({i \in 1..Len(requests) :
                             requests[i] > lookup.grant - window_seconds})
                <= max_requests
          /\ lookup'.pc = "idle"
          /\ lookup'.exc = NULL
          /\ \/ /\ lookup'.ret = <<"T", "r", "u", "e">>
                /\ loaded'
                /\ MappingKey \in DOMAIN cache'
                /\ cache'[MappingKey].created_at = SqliteNow(now)
                /\ cache'[MappingKey].access_count = 0
                /\ JsonLoads(cache'[MappingKey].data) =
                      [ticker_to_cik |-> ticker_to_cik',
                       cik_to_ticker |-> cik_to_ticker',
                       company_names |-> company_names',
                       name_to_cik |-> name_to_cik']
             \/ /\ lookup'.ret = <<"F", "a", "l", "s", "e">>
                /\ ~loaded'
                /\ cache' = cache

(***************************************************************************)
(* C34: the directory is loaded once per resolver instance: after one      *)
(* successful load, no sequence of by_ticker, by_name, resolve,            *)
(* search_by_prefix, get_ticker or get_company_name calls issues another   *)
(* directory fetch or cache read; refresh_mapping() always issues a        *)
(* rate-limited HTTP fetch even when a valid cached directory exists,      *)
(* overwrites the cached directory on success, and on a failed fetch       *)
(* returns False without raising.                                          *)
(***************************************************************************)
C34_LoadedOnceAndRefreshFetches ==
    [][LookupOnLoadedIsLocal /\ RefreshAlwaysFetches]_vars

\* A refresh made on a loaded directory, whose cached copy was valid, waited
\* for the limiter, fetched, and replaced the cached copy by a directory of
\* two entries; a lookup made after it returned over the new directory.
C34_Witness ==
    /\ lookup.op = "by_ticker"
    /\ lookup.pc = "idle"
    /\ lookup.was_loaded
    /\ lookup.calls = 3
    /\ lookup.ret = Zfill(Str(42), 10)
    /\ ~lookup.read
    /\ lookup.fetched = 0
    /\ cstats.sets = 2
    /\ cstats.misses = 1
    /\ stats.total_requests = 2
    /\ stats.delayed_requests > 0
    /\ cache[MappingKey].access_count = 0

(***************************************************************************)
(* EdgarClient.extract_financial_metrics                                   *)
(***************************************************************************)

\* A fact of a tag's unit list is [end, val, fp, fy]: its period end (the
\* year of the ISO date, whose string order is the order of the dates), its
\* value, its fiscal period and the fiscal year of the filing reporting it.

\* revenue_tags, in the order they are tried
revenue_tags ==
    <<"Revenues", "RevenueFromContractWithCustomerExcludingAssessedTax",
      "SalesRevenueNet", "TotalRevenues">>

\* sga_tags, in the order they are tried
sga_tags ==
    <<"SellingGeneralAndAdministrativeExpense", "SellingAndMarketingExpense">>

\* u.get('fp') == 'FY'
IsAnnual(u) == u.fp = "FY"

\* max(units, key=lambda x: x.get('end', '')): the first fact with the
\* greatest period end
LatestByEnd(units) ==
    units[SetMin({i \in 1..Len(units) :
                     \A j \in 1..Len(units) : units[j].end <= units[i].end})]

\* sorted(rev_history, key=lambda x: x.get('end', ''), reverse=True): a
\* stable sort, facts with the same period end keep their order
SortedByEndDescending(hist) ==
    LET n == Len(hist)
        Rank(i) == 1 + Cardinality({j \in 1..n :
                          \/ hist[j].end > hist[i].end
                          \/ hist[j].end = hist[i].end /\ j < i})
    IN  [k \in 1..n |-> hist[CHOOSE i \in 1..n : Rank(i) = k]]

\* get_latest_annual(data_dict, tags): (latest, annual) of the first tag with
\* an annual fact, (None, []) when there is none
RECURSIVE get_latest_annual(_, _)
get_latest_annual(data_dict, tags) ==
    IF tags = <<>> THEN [found |-> FALSE, annual |-> <<>>]
    ELSE LET tag == Head(tags)
             annual == IF tag \in DictKeys(data_dict)
                       THEN SelectSeq(DictGet(data_dict, tag), IsAnnual)
                       ELSE <<>>
         IN  IF annual # <<>>
             THEN [found |-> TRUE, latest |-> LatestByEnd(annual),
                   annual |-> annual]
             ELSE get_latest_annual(data_dict, Tail(tags))

\* round(n / d * 100, 2) for d > 0, in hundredths of a percent: the nearest
\* hundredth, a tie going to the even one
RoundPercent(n, d) ==
    LET x == n * 10000
        f == x \div d
        r == x % d
    IN  IF 2 * r > d THEN f + 1
        ELSE IF 2 * r < d THEN f
        ELSE IF f % 2 = 0 THEN f ELSE f + 1

\* The year-over-year growth of a revenue history: [set, value], value in
\* hundredths of a percent.
RevenueGrowthYoY(rev_history) ==
    IF Len(rev_history) >= 2
    THEN LET sorted_hist == SortedByEndDescending(rev_history)
             current == sorted_hist[1].val
             previous == sorted_hist[2].val
         IN  IF previous # 0 /\ previous > 0
             THEN [set |-> TRUE,
                   value |-> RoundPercent(current - previous, previous)]
             ELSE [set |-> FALSE, value |-> 0]
    ELSE [set |-> FALSE, value |-> 0]

\* extract_financial_metrics(facts), facts = [us_gaap, dei]: each a dict from
\* a tag to the unit list the tag is read in (USD; shares for dei)
extract_financial_metrics(facts) ==
    LET rev == get_latest_annual(facts.us_gaap, revenue_tags)
        ni == get_latest_annual(facts.us_gaap, <<"NetIncomeLoss">>)
        assets == get_latest_annual(facts.us_gaap, <<"Assets">>)
        sga == get_latest_annual(facts.us_gaap, sga_tags)
        rd == get_latest_annual(facts.us_gaap,
                                <<"ResearchAndDevelopmentExpense">>)
        units == IF "EntityNumberOfEmployees" \in DictKeys(facts.dei)
                 THEN DictGet(facts.dei, "EntityNumberOfEmployees")
                 ELSE <<>>
        Val(data) == IF data.found THEN Value(data.latest.val) ELSE Unset
    IN  [FinancialMetrics EXCEPT
           !.revenue_usd = Val(rev),
           !.fiscal_year = IF rev.found THEN Value(rev.latest.fy) ELSE Unset,
           !.period_end = IF rev.found THEN Value(rev.latest.end) ELSE Unset,
           !.revenue_growth_yoy = IF rev.found
                                  THEN RevenueGrowthYoY(rev.annual)
                                  ELSE Unset,
           !.net_income_usd = Val(ni),
           !.total_assets_usd = Val(assets),
           !.employee_count = IF units # <<>>
                              THEN Value(LatestByEnd(units).val)
                              ELSE Unset,
           !.marketing_spend_usd = Val(sga),
           !.rd_spend_usd = Val(rd)]

\* ---- the facts the extraction is given ----

MaxUnits == 3
FirstYear == 2022
LastYear == 2023
RevenueVals == {-5, 0, 3, 4, 100, 110}

Annual(end, val) == [end |-> end, val |-> val, fp |-> "FY", fy |-> end]
Quarterly(end, val) == [end |-> end, val |-> val, fp |-> "Q3", fy |-> end]

\* An annual fact is reported by the filing of its year, and the last
\* year's again, as the comparative figure, by the filing of the year after.
RevenueFacts ==
    {Annual(end, val) : end \in FirstYear..LastYear, val \in RevenueVals}
    \cup {[Annual(LastYear, val) EXCEPT !.fy = LastYear + 1] :
             val \in RevenueVals}
    \cup {Quarterly(LastYear, 50)}

UnitLists == SeqsUpTo(RevenueFacts, MaxUnits)

OtherFacts ==
    {[us_gaap |-> <<>>, dei |-> <<>>],
     [us_gaap |-> <<<<"NetIncomeLoss", <<Annual(LastYear, -5)>>>>,
                    <<"Assets", <<Annual(FirstYear, 100),
                                  Annual(LastYear, 110)>>>>,
                    <<"SellingAndMarketingExpense",
                      <<Annual(LastYear, 4)>>>>,
                    <<"ResearchAndDevelopmentExpense",
                      <<Annual(LastYear, 3), Annual(FirstYear, 4)>>>>>>,
      dei |-> <<<<"EntityNumberOfEmployees",
                  <<Quarterly(LastYear, 110), Annual(FirstYear, 100)>>>>>>],
     [us_gaap |-> <<<<"Assets", <<Quarterly(LastYear, 110)>>>>,
                    <<"SellingGeneralAndAdministrativeExpense",
                      <<Annual(LastYear, 3)>>>>,
                    <<"SellingAndMarketingExpense",
                      <<Annual(LastYear, 4)>>>>>>,
      dei |-> <<<<"EntityNumberOfEmployees", <<>>>>>>]}

\* Revenues alone, or Revenues without an annual fact before a synonym.
FactsInputs ==
    {[us_gaap |-> <<<<"Revenues", units>>>> \o o.us_gaap, dei |-> o.dei] :
        units \in UnitLists, o \in OtherFacts}
    \cup {[us_gaap |-> <<<<"SalesRevenueNet", units>>,
                         <<"Revenues", first>>>>, dei |-> <<>>] :
             units \in SeqsUpTo(RevenueFacts, 2),
             first \in {<<>>, <<Quarterly(LastYear, 50)>>,
                        <<Annual(LastYear, 100)>>}}
    \cup {[us_gaap |-> <<>>, dei |-> <<>>]}

\* extract_financial_metrics(facts) is called and returns.  It reads and
\* writes nothing but its argument and its result, so one call is followed.
ExtractFinancialMetrics ==
    /\ ~metrics.called
    /\ \E facts \in FactsInputs :
          metrics' = [called |-> TRUE, facts |-> facts,
                      ret |-> extract_financial_metrics(facts)]
    /\ UNCHANGED <<now, rlVars, cacheVars, request_count, cache_hit_count,
                   loaded, thr, last, prev, ecalls, dictVars, lookup, brand>>

InitMetrics ==
    /\ now = StartTime
    /\ RLInit(1, 1)
    /\ CacheInit(0)
    /\ ClientInit

NextMetrics == ExtractFinancialMetrics

SpecMetrics == InitMetrics /\ [][NextMetrics]_vars

\* The annual facts of the revenue tag the extraction chose.
ChosenRevenueHistory(facts) ==
    get_latest_annual(facts.us_gaap, revenue_tags).annual

\* The period ends of a history, and the two most recent of them.
PeriodEnds(hist) == {hist[i].end : i \in 1..Len(hist)}
LatestEnd(hist) == SetMax(PeriodEnds(hist))
PreviousEnd(hist) == SetMax(PeriodEnds(hist) \ {LatestEnd(hist)})

\* growth, in hundredths of a percent, is (latest - previous) / previous *
\* 100 to the nearest hundredth.
IsGrowthOf(growth, latest, previous) ==
    LET d == growth * previous - 10000 * (latest - previous)
    IN  previous > 0 /\ 2 * d <= previous /\ -2 * d <= previous

\* C35: extract_financial_metrics emits a year-over-year revenue growth only
\* when the chosen revenue tag has at least two annual values; the growth it
\* emits is (latest - previous) / previous * 100 (to the hundredth it is
\* rounded to) of an annual value with the most recent period end and one
\* with the period end before it; and it emits none when the values of the
\* previous period end are zero or negative.
C35_GrowthFromTwoMostRecentPeriodEnds ==
    metrics.called =>
        LET hist == ChosenRevenueHistory(metrics.facts)
            growth == metrics.ret.revenue_growth_yoy
            n == Len(hist)
        IN  /\ growth.set => n >= 2
            /\ growth.set =>
                  /\ Cardinality(PeriodEnds(hist)) >= 2
                  /\ \E i, j \in 1..n :
                        /\ hist[i].end = LatestEnd(hist)
                        /\ hist[j].end = PreviousEnd(hist)
                        /\ IsGrowthOf(growth.value, hist[i].val, hist[j].val)
            /\ /\ Cardinality(PeriodEnds(hist)) >= 2
               /\ \A j \in 1..n :
                     hist[j].end = PreviousEnd(hist) => hist[j].val <= 0
               => ~growth.set

\* The claim's example: annual values 100 then 110 give 10.0.
GrowthOfTheExample ==
    /\ metrics.called
    /\ ChosenRevenueHistory(metrics.facts)
          = <<Annual(FirstYear, 100), Annual(LastYear, 110)>>
    /\ metrics.ret.revenue_growth_yoy = Value(1000)

(***************************************************************************)
(* ProfileBuilder._calculate_qualification_score                           *)
(***************************************************************************)

\* Amounts of money are in thousands of US dollars here, so that the trillion
\* of the first revenue tier is a number TLC can hold: the thresholds of
\* REVENUE_TIERS are the source's divided by 1000.  A ratio of two amounts
\* is the same in either unit.

\* REVENUE_TIERS: (threshold, points), the greatest threshold first
REVENUE_TIERS ==
    <<<<1000000000, 100>>, <<100000000, 90>>, <<10000000, 80>>,
      <<1000000, 70>>, <<500000, 60>>, <<100000, 50>>, <<10000, 40>>,
      <<1000, 30>>>>

\* EMPLOYEE_TIERS
EMPLOYEE_TIERS == <<<<100000, 25>>, <<10000, 20>>, <<1000, 15>>, <<100, 10>>>>

\* MARKETING_SPEND_TIERS: the thresholds 0.20, 0.10, 0.05 and 0.02 as
\* fractions <<numerator, denominator>>
MARKETING_SPEND_TIERS ==
    <<<<<<1, 5>>, 20>>, <<<<1, 10>>, 15>>, <<<<1, 20>>, 10>>,
      <<<<1, 50>>, 5>>>>

\* The thresholds and points of the if / elif chain for rd_ratio.
RD_TIERS == <<<<<<1, 5>>, 15>>, <<<<1, 10>>, 10>>, <<<<1, 20>>, 5>>>>

\* `if x:` for an Optional[int]: neither None nor 0
Truthy(x) == x.set /\ x.value # 0

\* for threshold, points in tiers: if value >= threshold: score += points;
\* break
RECURSIVE TierPoints(_, _)
TierPoints(tiers, value) ==
    IF tiers = <<>> THEN 0
    ELSE IF value >= Head(tiers)[1] THEN Head(tiers)[2]
    ELSE TierPoints(Tail(tiers), value)

\* spend / revenue >= threshold, revenue not 0: the quotient of two ints
\* against a fraction
RatioAtLeast(spend, revenue, threshold) ==
    IF revenue > 0
    THEN spend * threshold[2] >= threshold[1] * revenue
    ELSE spend * threshold[2] <= threshold[1] * revenue

\* spend_ratio = spend / revenue; for threshold, points in tiers:
\* if spend_ratio >= threshold: score += points; break
RECURSIVE RatioPoints(_, _, _)
RatioPoints(tiers, spend, revenue) ==
    IF tiers = <<>> THEN 0
    ELSE IF RatioAtLeast(spend, revenue, Head(tiers)[1]) THEN Head(tiers)[2]
    ELSE RatioPoints(Tail(tiers), spend, revenue)

\* return min(score, max_score), without the cap
Uncapped(score, max_score) == score

\* return min(score, max_score)
Capped(score, max_score) == Min(score, max_score)

\* _calculate_qualification_score(sec_profile, detected_technologies)
_calculate_qualification_score(sec_profile, detected_technologies) ==
    IF ~sec_profile.present \/ ~sec_profile.has
    THEN Min(Len(detected_technologies) * 5, 40)
    ELSE LET financials == sec_profile.latest_financials
             max_score == 100
             revenue ==
                 IF Truthy(financials.revenue_usd)
                 THEN TierPoints(REVENUE_TIERS, financials.revenue_usd.value)
                 ELSE 0
             employees ==
                 IF Truthy(financials.employee_count)
                 THEN TierPoints(EMPLOYEE_TIERS,
                                 financials.employee_count.value)
                 ELSE 0
             marketing ==
                 IF Truthy(financials.marketing_spend_usd)
                    /\ Truthy(financials.revenue_usd)
                 THEN RatioPoints(MARKETING_SPEND_TIERS,
                                  financials.marketing_spend_usd.value,
                                  financials.revenue_usd.value)
                 ELSE 0
             rd ==
                 IF Truthy(financials.rd_spend_usd)
                    /\ Truthy(financials.revenue_usd)
                 THEN RatioPoints(RD_TIERS, financials.rd_spend_usd.value,
                                  financials.revenue_usd.value)
                 ELSE 0
         IN  Capped(revenue + employees + marketing + rd, max_score)

\* ---- the profiles and technology lists the score is computed for ----

MaxTechnologies == 9

Opt(values) == {Unset} \cup {Value(v) : v \in values}

\* In thousands of dollars: none, 0, a loss, either side of the lowest tier,
\* tiers in between and the highest tier.
RevenueInputs ==
    Opt({0, -1000, 999, 1000, 100000, 10000000, 1000000000})
EmployeeInputs == Opt({0, 99, 100, 1000, 100000})
\* Against a revenue of 1000: either side of 2%, 5%, 10% and 20%; and 20% of
\* a revenue of 10000000.
MarketingInputs == Opt({0, -200, 19, 20, 50, 100, 199, 200, 2000000})
RdInputs == Opt({0, 49, 50, 100, 199, 200, 2000000})

FinancialsInputs ==
    {[FinancialMetrics EXCEPT !.revenue_usd = r, !.employee_count = e,
                              !.marketing_spend_usd = m, !.rd_spend_usd = d] :
        r \in RevenueInputs, e \in EmployeeInputs, m \in MarketingInputs,
        d \in RdInputs}

ProfileInputs ==
    {NoProfile, SECProfile(FALSE, FinancialMetrics)}
    \cup {SECProfile(TRUE, f) : f \in FinancialsInputs}

TechnologyLists ==
    {[i \in 1..k |-> "technology"] : k \in 0..MaxTechnologies}

\* _calculate_qualification_score(sec_profile, detected_technologies) is
\* called and returns.  It reads and writes nothing but its arguments and
\* its result, so one call is followed.
CalculateQualificationScore ==
    /\ ~brand.called
    /\ \E sec_profile \in ProfileInputs,
          detected_technologies \in TechnologyLists :
          brand' = [called |-> TRUE, sec_profile |-> sec_profile,
                    detected_technologies |-> detected_technologies,
                    qualification_score |->
                        _calculate_qualification_score(
                            sec_profile, detected_technologies)]
    /\ UNCHANGED <<now, rlVars, cacheVars, request_count, cache_hit_count,
                   loaded, thr, last, prev, ecalls, dictVars, lookup,
                   metrics>>

NextScore == CalculateQualificationScore

SpecScore == InitMetrics /\ [][NextScore]_vars

\* The points of the highest threshold of a table that a value reaches, 0
\* when it reaches none.
HighestTier(table, value) ==
    SetMax({0} \cup {table[i][2] : i \in {j \in 1..Len(table) :
                                            value >= table[j][1]}})

\* The points of the highest boundary of a table that spend / revenue
\* reaches; a boundary is a fraction <<1, k>>, so the quotient reaches it
\* when spend * k is on the far side of revenue.
HighestRatioTier(table, spend, revenue) ==
    SetMax({0} \cup
           {table[i][2] : i \in {j \in 1..Len(table) :
               LET k == table[j][1][2] \div table[j][1][1]
               IN  (revenue > 0 /\ spend * k >= revenue)
                   \/ (revenue < 0 /\ spend * k <= revenue)}})

\* The four axes of a profile's financials: a missing value earns nothing,
\* and a ratio exists when both amounts do and the revenue is not 0.
AxisPoints(f) ==
    [revenue |-> IF f.revenue_usd.set
                 THEN HighestTier(REVENUE_TIERS, f.revenue_usd.value) ELSE 0,
     headcount |-> IF f.employee_count.set
                   THEN HighestTier(EMPLOYEE_TIERS, f.employee_count.value)
                   ELSE 0,
     marketing |-> IF /\ f.marketing_spend_usd.set
                      /\ f.revenue_usd.set /\ f.revenue_usd.value # 0
                   THEN HighestRatioTier(MARKETING_SPEND_TIERS,
                                         f.marketing_spend_usd.value,
                                         f.revenue_usd.value)
                   ELSE 0,
     rd |-> IF f.rd_spend_usd.set /\ f.revenue_usd.set
               /\ f.revenue_usd.value # 0
            THEN HighestRatioTier(RD_TIERS, f.rd_spend_usd.value,
                                  f.revenue_usd.value)
            ELSE 0]

AxisSum(f) ==
    LET p == AxisPoints(f)
    IN  p.revenue + p.headcount + p.marketing + p.rd

\* The profile has financial facts.
HasFinancials(sec_profile) == sec_profile.present /\ sec_profile.has

\* C36: for every profile and every list of detected technologies the
\* qualification score is an integer from 0 to 100: the points of the
\* revenue, headcount, marketing-ratio and R&D-ratio tiers added up and
\* capped at 100 when the profile has financial facts, and the smaller of 5
\* times the number of detected technologies and 40 when it has none.
C36_QualificationScore ==
    brand.called =>
        /\ brand.qualification_score \in 0..100
        /\ HasFinancials(brand.sec_profile) =>
              brand.qualification_score
                  = Min(AxisSum(brand.sec_profile.latest_financials), 100)
        /\ ~HasFinancials(brand.sec_profile) =>
              brand.qualification_score
                  = Min(5 * Len(brand.detected_technologies), 40)

\* A profile whose four axes add up to more than 100 has been scored 100.
C36_Witness ==
    /\ brand.called
    /\ HasFinancials(brand.sec_profile)
    /\ AxisSum(brand.sec_profile.latest_financials) > 100
    /\ AxisPoints(brand.sec_profile.latest_financials).marketing > 0
    /\ brand.qualification_score = 100

(***************************************************************************)
(* C37: every HTTP GET attempt the client makes, each retry after a failed *)
(* attempt included, is preceded by its own acquisition of the limiter,    *)
(* so that the attempts issued never outnumber the slots granted.          *)
(***************************************************************************)

\* The attempts a thread has issued on the slot it was last granted:
\* acquire() sets the count to 0 and each requests.get of _do_request adds 1.
AttemptsOnGrant(t) == thr[t].attempts

\* C37: no thread, inside _make_request or back from it, has issued more than
\* one HTTP GET attempt on one granted acquisition.
C37_EveryAttemptHasItsOwnAcquisition ==
    /\ \A t \in Threads : AttemptsOnGrant(t) <= 1
    /\ last.attempts <= 1

(***************************************************************************)
(* C38: the EnrichmentResult an enrich_by_* call returns                   *)
(***************************************************************************)

\* result.brand is not None: the EnrichedBrand carries the confidence level
\* and the data completeness of the result.
HasBrand(res) == res.confidence_level # "none"

\* result.error is not None: the EdgarAPIError carries the error type, the
\* message and the retryable flag.
HasError(res) == res.error_type # "none"

\* C38: every EnrichmentResult returned by enrich_by_cik, enrich_by_ticker or
\* enrich_by_name has success true exactly when the brand is present and the
\* error absent, and success false exactly when the error is present and the
\* brand absent.
C38_SuccessIffBrandAndNoError ==
    \A res \in {last.result} \cup {thr[t].result : t \in Threads} :
        res.returned =>
            /\ res.success <=> (HasBrand(res) /\ ~HasError(res))
            /\ ~res.success <=> (HasError(res) /\ ~HasBrand(res))

\* An enrich_by_name call has returned a failure with a structured error.
C38_Witness ==
    /\ last.op = "name"
    /\ last.result.returned
    /\ ~last.result.success
    /\ HasError(last.result)
    /\ ~HasBrand(last.result)
    /\ last.result.error_type = "low_confidence"

(***************************************************************************)
(* C39: for an AdaptiveRateLimiter, under any sequence of acquire,         *)
(* record_rate_limit_error and record_success calls, the acquisitions      *)
(* granted within any trailing window of window_seconds never exceed the   *)
(* original capacity, also across a backoff that clears the window.        *)
(***************************************************************************)
C39_WindowNeverExceedsOriginalCapacity ==
    \A t \in 0..(MaxTime + MaxWindow) :
        GrantsIn(t - window_seconds, t) <= initial_max

(***************************************************************************)
(* C40: time_until_next_slot() returns 0.0 exactly when a slot is          *)
(* available now, that is when an acquire(block=False) made at the same    *)
(* instant would be granted, and a positive number of seconds otherwise.   *)
(***************************************************************************)
C40_ZeroExactlyWhenAcquireWouldBeGranted ==
    [][(query'.n = query.n + 1 /\ query'.op = "time_until_next_slot") =>
          LET cutoff == now - window_seconds
              kept == InWindow(requests, cutoff)
              granted_now == Len(kept) < max_requests
          IN  /\ query'.wait = 0 <=> granted_now
              /\ ~granted_now => query'.wait > 0]_vars

====
